---- MODULE Spec2Model ----
(***************************************************************************)
(* Canvas interaction engine of the task canvas (useCanvasInteraction) and *)
(* the parts of the application component it is wired to: the task and     *)
(* group lists, the selection sets, the undo history and the connection    *)
(* guard.                                                                  *)
(*                                                                         *)
(* World coordinates (task and group x, y, width, height) are kept in half *)
(* units: the stored integer is twice the world value, so that the         *)
(* division by the viewport scale 1 or 2 is exact.  The viewport scale is   *)
(* kept in halves as well (4 stands for the scale 2, 1 for 0.5).  Screen   *)
(* coordinates (pointer positions, viewport offset) are kept in pixels.    *)
(*                                                                         *)
(* One action is one event handler together with the render that follows   *)
(* it and the effects of that render, so that the refs mirrored from state *)
(* equal the state they mirror.  The animation-frame callback is modelled  *)
(* twice: RunFrame with its effects in the same step, and FrameCallback,   *)
(* whose passive effects (the assignment of interactionRef, the window     *)
(* listeners) run in a later step, FlushEffects.                           *)
(***************************************************************************)
EXTENDS Integers, Sequences, FiniteSets, TLC

\* ------------------------------------------------------------------ bounds
MaxGestures == 1          \* gestures (pointer-down events) in one behaviour
MaxHistory == 3           \* length of the undo stack
StackLimit == 4           \* activations of hasCycle the call stack holds
MaxDrift == 380           \* viewport offset up to which frames are followed

\* ------------------------------------------------------- program constants
DefaultTaskWidth == 300   \* t.width || 300
ChildTaskHeight == 150    \* t.height || 150 (containment and marquee tests)
SnapTaskHeight == 100     \* task.height || 100 (snap rectangle)
SnapThresholdPx == 12     \* SNAP_THRESHOLD = 12 / currentScale
GridSize == 10            \* GRID_SIZE
MinGroupWidth == 200      \* Math.max(200, ...)
MinGroupHeight == 100     \* Math.max(100, ...)
MarqueeMin == 5           \* w > 5 || h > 5

\* ------------------------------------------------------------ the universe
TaskIds == {"A", "B", "C"}
TaskOrder == <<"A", "B", "C">>         \* order of the tasks array
GroupIds == {"G"}
NoParent == "none"                     \* parentId undefined
Null == "null"                         \* rAF.current holding null
NoEvent == <<>>                        \* lastEventRef.current holding null
Handle == "frame"                      \* a requestAnimationFrame handle
Scales == {4}                          \* viewport.scale 2, in halves
Points == {<<0, 0>>, <<190, 30>>}
ReleasePoints == Points \cup {<<4, 3>>} \* where a button is released
InitSelections == {{}, {"A", "B"}}      \* task selections the gestures start from
Buttons == {0, 1, 2}

\* a world value n in stored half units
Wu(n) == 2 * n

EventAt(p, b, s) == [button |-> b, clientX |-> p[1], clientY |-> p[2], shiftKey |-> s]

VARIABLES
    tasks,              \* App: tasks state, id -> [x, y, parentId]
    groups,             \* App: groups state, id -> [x, y, width, height, locked]
    selectedTaskIds,    \* App: selection set of tasks
    selectedGroupIds,   \* App: selection set of groups
    viewport,           \* App: [x, y, scale]
    history,            \* App: [past, future], sequences of [tasks, groups]
    interactionMode,    \* App: "pointer" or "hand"
    isSpacePressed,     \* hook: isSpacePressed.current
    interaction,        \* hook: InteractionState
    guides,             \* hook: sequence of guide lines
    rAF,                \* hook: rAF.current
    lastEventRef,       \* hook: lastEventRef.current
    frames,             \* browser: animation-frame callbacks pending
    interactionRef,     \* hook: interactionRef.current
    effectsDue,         \* React: passive effects of a committed render, not yet run
    pushCalls,          \* calls of the hook's pushHistory prop
    walk,               \* the ancestor walk of hasCycle, one call per step
    last,               \* observation: the event handled last
    lastMove,           \* observation: payload of the last pointer-move
    nDown,              \* observation: pointer-down events so far
    held,               \* observation: mouse buttons held down
    gest                \* observation: the gesture started last

appVars == <<tasks, groups, selectedTaskIds, selectedGroupIds, viewport,
             history, interactionMode>>
hookVars == <<isSpacePressed, interaction, guides, rAF, lastEventRef, frames,
              pushCalls>>
refVars == <<interactionRef, effectsDue>>
obsVars == <<last, lastMove, nDown, held, gest>>
vars == <<appVars, hookVars, refVars, walk, obsVars>>

\* --------------------------------------------------------------- geometry
Min(a, b) == IF a < b THEN a ELSE b
Max(a, b) == IF a > b THEN a ELSE b
Abs(a) == IF a < 0 THEN -a ELSE a

TaskW == Wu(DefaultTaskWidth)

\* deltaX / scale, in half units
WorldDelta(d) == (4 * d) \div viewport.scale

Pos(e) == [x |-> e.x, y |-> e.y]

\* variant of CenterInside that tests the task's top-left corner
CenterInside_corner(t, g) ==
    t.x >= g.x /\ t.x <= g.x + g.width /\ t.y >= g.y /\ t.y <= g.y + g.height

\* handleNodeMouseDown: the center of task t lies within group g
CenterInside(t, g) ==
    LET cx == t.x + TaskW \div 2
        cy == t.y + Wu(ChildTaskHeight) \div 2
    IN  cx >= g.x /\ cx <= g.x + g.width /\ cy >= g.y /\ cy <= g.y + g.height

IdleState == [type |-> "idle", startX |-> 0, startY |-> 0, currentX |-> 0, currentY |-> 0]

Gesture(type, e) ==
    [type |-> type, startX |-> e.clientX, startY |-> e.clientY,
     currentX |-> e.clientX, currentY |-> e.clientY]

\* ---------------------------------------------------------------- history
Snapshot == [tasks |-> tasks, groups |-> groups]

\* App.pushHistory
pushHistory(h) == [past |-> Append(h.past, Snapshot), future |-> <<>>]

\* ------------------------------------------------------------------- Init
InitTasks ==
    [t \in TaskIds |->
        [x |-> Wu(CASE t = "A" -> 0 [] t = "B" -> 100 [] OTHER -> 300),
         y |-> Wu(0), parentId |-> NoParent]]

InitGroups ==
    [g \in GroupIds |-> [x |-> Wu(0), y |-> Wu(0), width |-> Wu(400), height |-> Wu(300),
                         locked |-> FALSE]]

NoGesture ==
    [downs |-> 0, kind |-> "idle", push0 |-> 0, tasks0 |-> InitTasks,
     groups0 |-> InitGroups, clean |-> TRUE, seen |-> {}]
Other == [ev |-> "other"]              \* an event the properties do not look at
WalkIdle ==
    [pc |-> "idle", parentId |-> NoParent, childId |-> NoParent, result |-> FALSE,
     depth |-> 0]

\* the history, the mode and the hook as constructed, nothing observed yet
InitInteraction ==
    /\ interactionMode = "pointer"
    /\ isSpacePressed = FALSE
    /\ interaction = IdleState
    /\ guides = <<>>
    /\ rAF = Null
    /\ lastEventRef = NoEvent
    /\ frames = 0
    /\ interactionRef = IdleState
    /\ effectsDue = {}
    /\ pushCalls = 0
    /\ walk = WalkIdle
    /\ last = Other
    /\ lastMove = NoEvent
    /\ nDown = 0
    /\ held = 0
    /\ gest = NoGesture

InitHook ==
    /\ history = [past |-> <<>>, future |-> <<>>]
    /\ InitInteraction

InitRest ==
    /\ groups = InitGroups
    /\ selectedTaskIds \in InitSelections
    /\ selectedGroupIds = {}
    /\ viewport \in [x : {0}, y : {0}, scale : Scales]
    /\ InitHook

Init ==
    /\ tasks = InitTasks
    /\ InitRest

\* the render that follows a handler, with its passive effects:
\* useEffect(() => { interactionRef.current = interaction; }, [interaction])
Commit ==
    /\ interactionRef' = interaction'
    /\ effectsDue' = {}

\* ------------------------------------------------------- gesture start
pressVars == <<selectedTaskIds, selectedGroupIds, history, pushCalls, interaction>>

\* variant of handleMouseDown that leaves the selections to the release
handleMouseDown_keepSelection(e) ==
    IF e.button = 2
    THEN UNCHANGED pressVars
    ELSE IF e.button = 1 \/ (e.button = 0 /\ (isSpacePressed \/ interactionMode = "hand"))
    THEN /\ interaction' = Gesture("panning", e)
         /\ UNCHANGED <<selectedTaskIds, selectedGroupIds, history, pushCalls>>
    ELSE /\ interaction' = Gesture("selecting", e)
         /\ UNCHANGED <<selectedTaskIds, selectedGroupIds, history, pushCalls>>

\* useCanvasInteraction.handleMouseDown (press on the canvas background)
handleMouseDown(e) ==
    IF e.button = 2
    THEN UNCHANGED pressVars
    ELSE IF e.button = 1 \/ (e.button = 0 /\ (isSpacePressed \/ interactionMode = "hand"))
    THEN /\ interaction' = Gesture("panning", e)
         /\ UNCHANGED <<selectedTaskIds, selectedGroupIds, history, pushCalls>>
    ELSE /\ IF ~e.shiftKey
            THEN selectedTaskIds' = {} /\ selectedGroupIds' = {}
            ELSE UNCHANGED <<selectedTaskIds, selectedGroupIds>>
         /\ interaction' = Gesture("selecting", e)
         /\ UNCHANGED <<history, pushCalls>>

\* variant of PressSelection in which a shift press adds and never removes
PressSelection_additive(e, id, type) ==
    IF type = "task"
    THEN IF e.shiftKey
         THEN [tasks |-> selectedTaskIds \cup {id}, groups |-> selectedGroupIds]
         ELSE IF id \notin selectedTaskIds
              THEN [tasks |-> {id}, groups |-> {}]
              ELSE [tasks |-> selectedTaskIds, groups |-> selectedGroupIds]
    ELSE IF id \notin selectedGroupIds
         THEN [tasks |-> {}, groups |-> {id}]
         ELSE [tasks |-> selectedTaskIds, groups |-> selectedGroupIds]

\* handleNodeMouseDown: the selection sets after the press-time update
PressSelection(e, id, type) ==
    IF type = "task"
    THEN IF e.shiftKey
         THEN [tasks |-> IF id \in selectedTaskIds
                         THEN selectedTaskIds \ {id}
                         ELSE selectedTaskIds \cup {id},
               groups |-> selectedGroupIds]
         ELSE IF id \notin selectedTaskIds
              THEN [tasks |-> {id}, groups |-> {}]
              ELSE [tasks |-> selectedTaskIds, groups |-> selectedGroupIds]
    ELSE IF id \notin selectedGroupIds
         THEN [tasks |-> {}, groups |-> {id}]
         ELSE [tasks |-> selectedTaskIds, groups |-> selectedGroupIds]

\* handleNodeMouseDown: the ids captured "NOW", from the selection of the
\* render the handler closes over
DragTargets(id, type) ==
    IF type = "task"
    THEN (IF id \in selectedTaskIds THEN selectedTaskIds ELSE {id})
    ELSE (IF id \in selectedGroupIds THEN selectedGroupIds ELSE {id})

\* handleNodeMouseDown: tasks whose center lies in one of the dragged groups
DragChildren(targetIds) ==
    {t \in TaskIds : \E g \in targetIds : CenterInside(tasks[t], groups[g])}

\* useCanvasInteraction.handleNodeMouseDown (press on a task or group body)
handleNodeMouseDown(e, id, type) ==
    IF e.button # 0 \/ interactionMode = "hand"
    THEN UNCHANGED pressVars
    ELSE LET targetIds == DragTargets(id, type)
             childrenIds == IF type = "task" THEN {} ELSE DragChildren(targetIds)
         IN  /\ selectedTaskIds' = PressSelection(e, id, type).tasks
             /\ selectedGroupIds' = PressSelection(e, id, type).groups
             /\ history' = pushHistory(history)
             /\ pushCalls' = pushCalls + 1
             /\ interaction' =
                    Gesture(IF type = "task" THEN "dragging_node" ELSE "dragging_group", e) @@
                    [targetIds |-> targetIds,
                     primaryId |-> id,
                     initialPositions |->
                        IF type = "task"
                        THEN [t \in targetIds |-> Pos(tasks[t])]
                        ELSE [g \in targetIds |-> Pos(groups[g])],
                     draggedChildrenIds |-> childrenIds,
                     initialChildrenPositions |-> [t \in childrenIds |-> Pos(tasks[t])]]

\* useCanvasInteraction.handleConnectionStart (press on a connection handle)
handleConnectionStart(e, taskId) ==
    IF interactionMode = "hand"
    THEN UNCHANGED pressVars
    ELSE /\ interaction' = Gesture("connecting", e) @@ [connectionStartId |-> taskId]
         /\ UNCHANGED <<selectedTaskIds, selectedGroupIds, history, pushCalls>>

\* variant of handleGroupResizeStart without the test of the mode
handleGroupResizeStart_anyMode(e, id) ==
    /\ history' = pushHistory(history)
    /\ pushCalls' = pushCalls + 1
    /\ interaction' =
           Gesture("resizing_group", e) @@
           [targetIds |-> {id},
            initialPositions |->
               [g \in {id} |-> [x |-> groups[g].width, y |-> groups[g].height]]]
    /\ UNCHANGED <<selectedTaskIds, selectedGroupIds>>

\* useCanvasInteraction.handleGroupResizeStart (press on a resize handle)
handleGroupResizeStart(e, id) ==
    IF interactionMode = "hand"
    THEN UNCHANGED pressVars
    ELSE /\ history' = pushHistory(history)
         /\ pushCalls' = pushCalls + 1
         /\ interaction' =
                Gesture("resizing_group", e) @@
                [targetIds |-> {id},
                 initialPositions |->
                    [g \in {id} |-> [x |-> groups[g].width, y |-> groups[g].height]]]
         /\ UNCHANGED <<selectedTaskIds, selectedGroupIds>>

\* the window-listener effect of the hook, re-run by the render after a
\* handler: when its dependencies changed while listeners were attached, the
\* cleanup cancels the pending frame and leaves rAF.current as it is
WindowListenersEffect(depsChanged) ==
    frames' = IF interaction.type # "idle" /\ depsChanged /\ rAF # Null /\ frames > 0
              THEN frames - 1
              ELSE frames

\* handleMouseDown calls setSelectedTaskIds (a new Set: handleMouseUp, which
\* depends on selectedTaskIds, is re-created by the render)
SetsSelectionOnCanvas(e) ==
    /\ e.button = 0
    /\ ~(isSpacePressed \/ interactionMode = "hand")
    /\ ~e.shiftKey

\* handleNodeMouseDown calls setSelectedTaskIds
SetsSelectionOnNode(e, id, type) ==
    /\ e.button = 0
    /\ interactionMode # "hand"
    /\ IF type = "task" THEN e.shiftKey \/ id \notin selectedTaskIds
                         ELSE id \notin selectedGroupIds

\* what a pointer-down leaves alone, and what it records
PressFrame(selectionSet) ==
    /\ nDown < MaxGestures
    /\ held = 0
    /\ WindowListenersEffect(interaction'.type # interaction.type \/ selectionSet)
    /\ nDown' = nDown + 1
    /\ held' = held + 1
    /\ gest' = IF interaction.type = "idle"
               THEN [downs |-> 1, kind |-> interaction'.type, push0 |-> pushCalls,
                     tasks0 |-> tasks, groups0 |-> groups, clean |-> TRUE, seen |-> {}]
               ELSE [gest EXCEPT !.downs = @ + 1, !.clean = FALSE]
    /\ UNCHANGED <<tasks, groups, viewport, interactionMode, isSpacePressed, guides,
                   rAF, lastEventRef, walk, lastMove>>
    /\ Commit

NodePress(e, id, type) ==
    [ev |-> "press", id |-> id, etype |-> type, shift |-> e.shiftKey, button |-> e.button,
     mode |-> interactionMode, selT0 |-> selectedTaskIds, selG0 |-> selectedGroupIds,
     space |-> isSpacePressed, from |-> interaction.type]

\* mousedown on the canvas background
CanvasMouseDown ==
    \E p \in Points, b \in Buttons, s \in BOOLEAN :
        /\ handleMouseDown(EventAt(p, b, s))
        /\ PressFrame(SetsSelectionOnCanvas(EventAt(p, b, s)))
        /\ last' = NodePress(EventAt(p, b, s), Null, "canvas") @@ [x |-> p[1], y |-> p[2]]

\* mousedown on a task body: TaskNode onMouseDown
TaskMouseDown ==
    \E p \in Points, b \in Buttons, s \in BOOLEAN, id \in TaskIds :
        /\ handleNodeMouseDown(EventAt(p, b, s), id, "task")
        /\ PressFrame(SetsSelectionOnNode(EventAt(p, b, s), id, "task"))
        /\ last' = NodePress(EventAt(p, b, s), id, "task")

\* the buttons that may have started the gesture in progress
HeldButtons ==
    IF interaction.type = "panning"
    THEN (IF isSpacePressed \/ interactionMode = "hand" THEN {0, 1} ELSE {1})
    ELSE {0}

\* what the mousedown of a second button leaves alone while the button of
\* a gesture is still held: the handlers are the same and do not look at
\* the interaction
ChordFrame(selectionSet) ==
    /\ held = 1
    /\ interaction.type # "idle"
    /\ WindowListenersEffect(interaction'.type # interaction.type \/ selectionSet)
    /\ held' = held + 1
    /\ gest' = [gest EXCEPT !.downs = @ + 1, !.clean = FALSE]
    /\ UNCHANGED <<tasks, groups, viewport, interactionMode, isSpacePressed, guides,
                   rAF, lastEventRef, walk, lastMove, nDown>>
    /\ Commit

\* mousedown of a second button on the canvas background
ChordCanvasMouseDown ==
    \E p \in Points, b \in Buttons \ HeldButtons, s \in BOOLEAN :
        /\ handleMouseDown(EventAt(p, b, s))
        /\ ChordFrame(SetsSelectionOnCanvas(EventAt(p, b, s)))
        /\ last' = NodePress(EventAt(p, b, s), Null, "canvas") @@ [x |-> p[1], y |-> p[2]]

\* mousedown of a second button on a task body
ChordTaskMouseDown ==
    \E p \in Points, b \in Buttons \ HeldButtons, s \in BOOLEAN, id \in TaskIds :
        /\ handleNodeMouseDown(EventAt(p, b, s), id, "task")
        /\ ChordFrame(SetsSelectionOnNode(EventAt(p, b, s), id, "task"))
        /\ last' = NodePress(EventAt(p, b, s), id, "task")

\* mousedown on a group body: GroupNode onMouseDown
GroupMouseDown ==
    \E p \in Points, b \in Buttons, s \in BOOLEAN, id \in DOMAIN groups :
        /\ handleNodeMouseDown(EventAt(p, b, s), id, "group")
        /\ PressFrame(SetsSelectionOnNode(EventAt(p, b, s), id, "group"))
        /\ last' = NodePress(EventAt(p, b, s), id, "group")

\* mousedown on a group's resize handle, which GroupNode renders while the
\* group is not locked: stopPropagation, then onResizeStart
ResizeHandleMouseDown ==
    \E p \in Points, b \in Buttons, s \in BOOLEAN, id \in DOMAIN groups :
        /\ ~groups[id].locked
        /\ handleGroupResizeStart(EventAt(p, b, s), id)
        /\ PressFrame(FALSE)
        /\ last' = NodePress(EventAt(p, b, s), id, "resize")

\* mousedown on a task's connection handle: handleConnectionStart stops the
\* propagation only in pointer mode; in hand mode the event bubbles to the
\* task body
ConnectionHandleMouseDown ==
    \E p \in Points, b \in Buttons, s \in BOOLEAN, id \in TaskIds :
        /\ IF interactionMode = "hand"
           THEN handleNodeMouseDown(EventAt(p, b, s), id, "task")
           ELSE handleConnectionStart(EventAt(p, b, s), id)
        /\ PressFrame(SetsSelectionOnNode(EventAt(p, b, s), id, "task")
                                      /\ interactionMode = "hand")
        /\ last' = NodePress(EventAt(p, b, s), id, "handle")

\* variant of handleMouseMove that requests a frame for every move
handleMouseMove_queueing(p) ==
    /\ lastEventRef' = p
    /\ rAF' = Handle
    /\ frames' = frames + 1

\* --------------------------------------------------------- pointer moves
\* useCanvasInteraction.handleMouseMove: store the payload, schedule a frame
\* unless one is scheduled
handleMouseMove(p) ==
    /\ lastEventRef' = p
    /\ IF rAF = Null
       THEN rAF' = Handle /\ frames' = frames + 1
       ELSE UNCHANGED <<rAF, frames>>

\* the window-listener effect's handleWindowMouseMove: the same mailbox and
\* the same flag
handleWindowMouseMove(p) ==
    /\ lastEventRef' = p
    /\ IF rAF = Null
       THEN rAF' = Handle /\ frames' = frames + 1
       ELSE UNCHANGED <<rAF, frames>>

MoveFrame(p) ==
    /\ lastMove' = p
    /\ last' = [ev |-> "move", superseding |-> (frames > 0 /\ lastEventRef # p)]
    /\ UNCHANGED <<appVars, isSpacePressed, interaction, guides, pushCalls,
                   refVars, walk, nDown, held, gest>>

\* mousemove over the canvas (always bound)
CanvasMouseMove ==
    \E p \in Points : handleMouseMove(p) /\ MoveFrame(p)

\* mousemove seen by the window listener (bound while a gesture is active)
WindowMouseMove ==
    \E p \in Points :
        /\ interaction.type # "idle"
        /\ handleWindowMouseMove(p)
        /\ MoveFrame(p)

\* ------------------------------------------------------------------ snap
\* Math.round(v / GRID_SIZE) * GRID_SIZE on a half-unit value
GridSnap(v) == Wu(GridSize) * ((v + Wu(GridSize) \div 2) \div Wu(GridSize))

\* calculateSnap: the five x candidates against sibling o (val: where the
\* dragged left edge lands, guide: the sibling line, dist)
XSnaps(px, o) ==
    LET w == TaskW
        left == o.x
        right == o.x + TaskW
        centerX == o.x + TaskW \div 2
    IN  << [val |-> left, guide |-> left, dist |-> Abs(px - left)],
           [val |-> left - w, guide |-> left, dist |-> Abs(px + w - left)],
           [val |-> right, guide |-> right, dist |-> Abs(px - right)],
           [val |-> right - w, guide |-> right, dist |-> Abs(px + w - right)],
           [val |-> centerX - w \div 2, guide |-> centerX,
            dist |-> Abs(px + w \div 2 - centerX)] >>

\* calculateSnap: the five y candidates against sibling o
YSnaps(py, o) ==
    LET h == Wu(SnapTaskHeight)
        top == o.y
        bottom == o.y + Wu(SnapTaskHeight)
        centerY == o.y + Wu(SnapTaskHeight) \div 2
    IN  << [val |-> top, guide |-> top, dist |-> Abs(py - top)],
           [val |-> top - h, guide |-> top, dist |-> Abs(py + h - top)],
           [val |-> bottom, guide |-> bottom, dist |-> Abs(py - bottom)],
           [val |-> bottom - h, guide |-> bottom, dist |-> Abs(py + h - bottom)],
           [val |-> centerY - h \div 2, guide |-> centerY,
            dist |-> Abs(py + h \div 2 - centerY)] >>

\* variant of SnapSiblings that leaves out the dragged task only
SnapSiblings_selfOnly(id) ==
    SelectSeq(TaskOrder, LAMBDA o : o # id)

\* calculateSnap: the tasks iterated, in array order, without the dragged
\* task and without the other targets of the gesture
SnapSiblings(id) ==
    SelectSeq(TaskOrder, LAMBDA o : o # id /\ o \notin interaction.targetIds)

\* variant of BestSnap that keeps the first candidate under the bound
RECURSIVE BestSnap_firstMatch(_, _)
BestSnap_firstMatch(cands, best) ==
    IF cands = <<>>
    THEN best
    ELSE LET c == Head(cands)
         IN  BestSnap_firstMatch(Tail(cands),
                      IF ~best.found /\ c.dist < best.dist
                      THEN [dist |-> c.dist, val |-> c.val, guide |-> c.guide, found |-> TRUE]
                      ELSE best)

\* calculateSnap: the running minimum (strict <, so the first minimum wins)
RECURSIVE BestSnap(_, _)
BestSnap(cands, best) ==
    IF cands = <<>>
    THEN best
    ELSE LET c == Head(cands)
         IN  BestSnap(Tail(cands),
                      IF c.dist < best.dist
                      THEN [dist |-> c.dist, val |-> c.val, guide |-> c.guide, found |-> TRUE]
                      ELSE best)

RECURSIVE BestOverSiblings(_, _, _, _)
BestOverSiblings(sibs, axis, proposed, best) ==
    IF sibs = <<>>
    THEN best
    ELSE BestOverSiblings(Tail(sibs), axis, proposed,
                          BestSnap(IF axis = "x" THEN XSnaps(proposed, tasks[Head(sibs)])
                                                 ELSE YSnaps(proposed, tasks[Head(sibs)]),
                                   best))

\* calculateSnap: bestDx = SNAP_THRESHOLD + 1, bestX = null
NoSnap == [dist |-> (2 * Wu(SnapThresholdPx)) \div viewport.scale + Wu(1),
           val |-> 0, guide |-> 0, found |-> FALSE]

\* variant of calculateSnap that also emits a guide on the grid line of an
\* axis that fell back to the grid
calculateSnap_gridGuides(id, proposedX, proposedY) ==
    LET bx == BestOverSiblings(SnapSiblings(id), "x", proposedX, NoSnap)
        by == BestOverSiblings(SnapSiblings(id), "y", proposedY, NoSnap)
        x == IF bx.found THEN bx.val ELSE GridSnap(proposedX)
        y == IF by.found THEN by.val ELSE GridSnap(proposedY)
    IN  [x |-> x, y |-> y,
         guides |->
            <<[type |-> "vertical", pos |-> IF bx.found THEN bx.guide ELSE x],
              [type |-> "horizontal", pos |-> IF by.found THEN by.guide ELSE y]>>]

\* useCanvasInteraction.calculateSnap
calculateSnap(id, proposedX, proposedY) ==
    LET bx == BestOverSiblings(SnapSiblings(id), "x", proposedX, NoSnap)
        by == BestOverSiblings(SnapSiblings(id), "y", proposedY, NoSnap)
    IN  [x |-> IF bx.found THEN bx.val ELSE GridSnap(proposedX),
         y |-> IF by.found THEN by.val ELSE GridSnap(proposedY),
         guides |->
            (IF bx.found THEN <<[type |-> "vertical", pos |-> bx.guide]>> ELSE <<>>) \o
            (IF by.found THEN <<[type |-> "horizontal", pos |-> by.guide]>> ELSE <<>>)]

\* ----------------------------------------------------- frame recomputation
frameVars == <<tasks, groups, viewport, interaction, guides>>

\* App.handleTasksUpdate / App.handleGroupsUpdate: x and y of the listed ids
ApplyUpdates(list, updates) ==
    [id \in DOMAIN list |->
        IF id \in DOMAIN updates
        THEN [list[id] EXCEPT !.x = updates[id].x, !.y = updates[id].y]
        ELSE list[id]]

\* variant of handleGroupResize that resizes the selected groups as well
ApplyResize_selected(list, id, w, h) ==
    [g \in DOMAIN list |->
        IF g = id \/ g \in selectedGroupIds
        THEN [list[g] EXCEPT !.width = w, !.height = h]
        ELSE list[g]]

\* App.handleGroupResize
ApplyResize(list, id, w, h) ==
    [g \in DOMAIN list |->
        IF g = id THEN [list[g] EXCEPT !.width = w, !.height = h] ELSE list[g]]

\* processMouseMove, dragging_node: the delta applied to every target
NodeDragDelta(e) ==
    LET cur == interactionRef
        rawX == WorldDelta(e[1] - cur.startX)
        rawY == WorldDelta(e[2] - cur.startY)
    IN  IF cur.primaryId \in DOMAIN cur.initialPositions
        THEN LET startPos == cur.initialPositions[cur.primaryId]
                 snapped == calculateSnap(cur.primaryId, startPos.x + rawX, startPos.y + rawY)
             IN  [x |-> snapped.x - startPos.x, y |-> snapped.y - startPos.y,
                  guides |-> snapped.guides]
        ELSE [x |-> rawX, y |-> rawY, guides |-> <<>>]

\* variant of NodeDragUpdates that snaps the primary task and moves the
\* other targets by the raw delta
NodeDragUpdates_primarySnapOnly(e) ==
    LET d == NodeDragDelta(e)
    IN  [id \in DOMAIN interactionRef.initialPositions |->
            IF id = interactionRef.primaryId
            THEN [x |-> interactionRef.initialPositions[id].x + d.x,
                  y |-> interactionRef.initialPositions[id].y + d.y]
            ELSE [x |-> interactionRef.initialPositions[id].x +
                        WorldDelta(e[1] - interactionRef.startX),
                  y |-> interactionRef.initialPositions[id].y +
                        WorldDelta(e[2] - interactionRef.startY)]]

\* processMouseMove, dragging_node: the batch passed to onTasksUpdate
NodeDragUpdates(e) ==
    LET d == NodeDragDelta(e)
    IN  [id \in DOMAIN interactionRef.initialPositions |->
            [x |-> interactionRef.initialPositions[id].x + d.x,
             y |-> interactionRef.initialPositions[id].y + d.y]]

\* variant of RawDragUpdates that adds the delta to the positions the
\* previous frame left
RawDragUpdates_incremental(e, starts) ==
    [id \in DOMAIN starts |->
        [x |-> (IF id \in DOMAIN groups THEN groups[id].x ELSE tasks[id].x) +
               WorldDelta(e[1] - interactionRef.startX),
         y |-> (IF id \in DOMAIN groups THEN groups[id].y ELSE tasks[id].y) +
               WorldDelta(e[2] - interactionRef.startY)]]

\* processMouseMove, dragging_group: the batches passed to onGroupsUpdate
\* and onTasksUpdate
RawDragUpdates(e, starts) ==
    [id \in DOMAIN starts |->
        [x |-> starts[id].x + WorldDelta(e[1] - interactionRef.startX),
         y |-> starts[id].y + WorldDelta(e[2] - interactionRef.startY)]]

\* variant of ResizeDims without the floor
ResizeDims_unclamped(startDims, dx, dy) ==
    [w |-> startDims.x + dx, h |-> startDims.y + dy]

\* processMouseMove, resizing_group: newW and newH
ResizeDims(startDims, dx, dy) ==
    [w |-> Max(Wu(MinGroupWidth), startDims.x + dx),
     h |-> Max(Wu(MinGroupHeight), startDims.y + dy)]

\* variant of TrackPointer that moves the anchor along with the pointer
TrackPointer_reanchor(e) ==
    [interaction EXCEPT !.startX = e[1], !.startY = e[2],
                        !.currentX = e[1], !.currentY = e[2]]

\* processMouseMove: setInteraction(prev => ({...prev, currentX, currentY}))
TrackPointer(e) ==
    [interaction EXCEPT !.currentX = e[1], !.currentY = e[2]]

\* processMouseMove: the recomputation of the active state
Recompute(e) ==
    LET cur == interactionRef
    IN  /\ TRUE
        /\ CASE cur.type = "idle" -> UNCHANGED frameVars
             [] cur.type = "panning" ->
                    /\ viewport' = [viewport EXCEPT !.x = @ + (e[1] - cur.currentX),
                                                    !.y = @ + (e[2] - cur.currentY)]
                    /\ interaction' = TrackPointer(e)
                    /\ UNCHANGED <<tasks, groups, guides>>
             [] cur.type \in {"selecting", "connecting"} ->
                    /\ interaction' = TrackPointer(e)
                    /\ UNCHANGED <<tasks, groups, viewport, guides>>
             [] cur.type = "dragging_node" ->
                    /\ guides' = NodeDragDelta(e).guides
                    /\ tasks' = ApplyUpdates(tasks, NodeDragUpdates(e))
                    /\ UNCHANGED <<groups, viewport, interaction>>
             [] cur.type = "dragging_group" ->
                    /\ guides' = <<>>
                    /\ groups' = ApplyUpdates(groups, RawDragUpdates(e, cur.initialPositions))
                    /\ tasks' = ApplyUpdates(tasks, RawDragUpdates(e, cur.initialChildrenPositions))
                    /\ UNCHANGED <<viewport, interaction>>
             [] cur.type = "resizing_group" ->
                    /\ LET id == CHOOSE g \in cur.targetIds : TRUE
                           startDims == cur.initialPositions[id]
                           dims == ResizeDims(startDims, WorldDelta(e[1] - cur.startX),
                                              WorldDelta(e[2] - cur.startY))
                       IN  groups' = ApplyResize(groups, id, dims.w, dims.h)
                    /\ UNCHANGED <<tasks, viewport, interaction, guides>>

\* variant of processMouseMove that commits a checkpoint at every frame
processMouseMove_checkpointing(e) ==
    /\ Recompute(e)
    /\ history' = pushHistory(history)
    /\ pushCalls' = pushCalls + 1

\* useCanvasInteraction.processMouseMove: no checkpoint is committed here
processMouseMove(e) ==
    /\ Recompute(e)
    /\ UNCHANGED <<history, pushCalls>>

\* the animation-frame callback scheduled by handleMouseMove /
\* handleWindowMouseMove, and what is observed of the gesture after it
RunFrameObserving(g) ==
    /\ frames > 0
    /\ IF lastEventRef # NoEvent
       THEN processMouseMove(lastEventRef)
       ELSE UNCHANGED <<frameVars, history, pushCalls>>
    /\ rAF' = Null
    /\ frames' = frames - 1
    /\ last' = [ev |-> "frame", used |-> lastEventRef, type |-> interaction.type,
                 superseded |-> (last.ev = "move" /\ last.superseding)]
    /\ UNCHANGED <<selectedTaskIds, selectedGroupIds, interactionMode, isSpacePressed,
                   lastEventRef, walk, lastMove, nDown, held>>
    /\ gest' = g
    /\ Commit

RunFrame == RunFrameObserving(gest)

\* the same callback, with the pointer positions the frames of the gesture
\* have processed kept as an observation
RecordedFrame == RunFrameObserving([gest EXCEPT !.seen = @ \cup {lastEventRef}])

\* the passive effects a frame's render leaves to run: the mirrors of the
\* state it set, and the window listeners when handleMouseUp was re-created
\* (setViewport -> screenToCanvas -> handleMouseUp)
FrameEffects ==
    IF interactionRef.type = "panning" THEN {"refs", "listeners"} ELSE {"refs"}

\* the animation-frame callback and the render of the state it set; the
\* passive effects of that render run later (FlushEffects), those of an
\* earlier render run before this one
FrameCallback ==
    /\ frames > 0
    /\ viewport.x \in -MaxDrift..MaxDrift
    /\ IF lastEventRef # NoEvent
       THEN processMouseMove(lastEventRef)
       ELSE UNCHANGED <<frameVars, history, pushCalls>>
    /\ rAF' = Null
    /\ frames' = frames - 1
    /\ LET renders == lastEventRef # NoEvent /\ interactionRef.type # "idle"
       IN  /\ interactionRef' = IF renders /\ effectsDue # {}
                                 THEN interaction
                                 ELSE interactionRef
           /\ effectsDue' = IF renders THEN FrameEffects ELSE effectsDue
    /\ last' = [ev |-> "frame", used |-> lastEventRef, type |-> interaction.type,
                 superseded |-> (last.ev = "move" /\ last.superseding)]
    /\ UNCHANGED <<selectedTaskIds, selectedGroupIds, interactionMode, isSpacePressed,
                   lastEventRef, walk, lastMove, nDown, held, gest>>

\* the passive effects of the last render: the mirrors are assigned, and the
\* window-listener effect is cleaned up and run again when one of its
\* dependencies changed
FlushEffects ==
    /\ effectsDue # {}
    /\ interactionRef' = interaction
    /\ effectsDue' = {}
    /\ WindowListenersEffect("listeners" \in effectsDue)
    /\ last' = [ev |-> "effects"]
    /\ UNCHANGED <<appVars, isSpacePressed, interaction, guides, rAF, lastEventRef,
                   pushCalls, walk, lastMove, nDown, held, gest>>

\* ------------------------------------------------------ connection guard
\* variant of hasCycle that only refuses a task as its own parent
hasCycle_selfOnly(parentId, childId, allTasks) == parentId = childId

\* App.hasCycle: walk up from the proposed parent
RECURSIVE hasCycle(_, _, _)
hasCycle(parentId, childId, allTasks) ==
    IF parentId = childId
    THEN TRUE
    ELSE IF allTasks[parentId].parentId = NoParent
         THEN FALSE
         ELSE hasCycle(allTasks[parentId].parentId, childId, allTasks)

\* variant of handleConnectionMade without the test for an existing link
handleConnectionMade_relink(parentId, childId) ==
    IF hasCycle(parentId, childId, tasks)
    THEN UNCHANGED <<tasks, history>>
    ELSE /\ history' = pushHistory(history)
         /\ tasks' = [tasks EXCEPT ![childId].parentId = parentId]

\* App.handleConnectionMade, the onConnect given to the hook
handleConnectionMade(parentId, childId) ==
    IF tasks[childId].parentId = parentId
    THEN UNCHANGED <<tasks, history>>
    ELSE IF hasCycle(parentId, childId, tasks)
         THEN UNCHANGED <<tasks, history>>
         ELSE /\ history' = pushHistory(history)
              /\ tasks' = [tasks EXCEPT ![childId].parentId = parentId]

\* -------------------------------------------------------------- release
\* a division of numbers: the quotient n / d (d > 0) rounded to the nearest
\* value the representation has, here a whole number of half units
Quotient(n, d) == (2 * n + d) \div (2 * d)

\* variant of screenToCanvas that does not subtract the offset
screenToCanvas_noOffset(s, offset) == Quotient(4 * s, viewport.scale)

\* useCanvasInteraction.screenToCanvas, one coordinate, in half units
screenToCanvas(s, offset) == Quotient(4 * (s - offset), viewport.scale)

\* the canvas transform translate(offset) scale(scale), origin 0 0: the
\* screen coordinate of a canvas coordinate, in quarter pixels
canvasToScreen(c, offset) == c * viewport.scale + 4 * offset

\* handleMouseUp: tasks whose rectangle overlaps the marquee
Intersected(x, y, w, h) ==
    {t \in TaskIds :
        /\ tasks[t].x < x + w
        /\ tasks[t].x + TaskW > x
        /\ tasks[t].y < y + h
        /\ tasks[t].y + Wu(ChildTaskHeight) > y}

\* variant of MarqueeSelection in which a shift release adds the intersected
\* tasks and removes none
MarqueeSelection_union(e) ==
    LET startx == screenToCanvas(interactionRef.startX, viewport.x)
        starty == screenToCanvas(interactionRef.startY, viewport.y)
        endx == screenToCanvas(e.clientX, viewport.x)
        endy == screenToCanvas(e.clientY, viewport.y)
        x == Min(startx, endx)
        y == Min(starty, endy)
        w == Abs(endx - startx)
        h == Abs(endy - starty)
        hit == Intersected(x, y, w, h)
    IN  IF w > Wu(MarqueeMin) \/ h > Wu(MarqueeMin)
        THEN IF e.shiftKey THEN selectedTaskIds \cup hit ELSE hit
        ELSE selectedTaskIds

\* handleMouseUp: the task selection after the release of a marquee
MarqueeSelection(e) ==
    LET startx == screenToCanvas(interactionRef.startX, viewport.x)
        starty == screenToCanvas(interactionRef.startY, viewport.y)
        endx == screenToCanvas(e.clientX, viewport.x)
        endy == screenToCanvas(e.clientY, viewport.y)
        x == Min(startx, endx)
        y == Min(starty, endy)
        w == Abs(endx - startx)
        h == Abs(endy - starty)
        hit == Intersected(x, y, w, h)
    IN  IF w > Wu(MarqueeMin) \/ h > Wu(MarqueeMin)
        THEN IF e.shiftKey
             THEN (selectedTaskIds \ hit) \cup (hit \ selectedTaskIds)
             ELSE hit
        ELSE selectedTaskIds

\* variant of handleMouseUp that leaves a pending frame scheduled
handleMouseUp_keepFrame(e) ==
    /\ UNCHANGED <<rAF, frames>>
    /\ selectedTaskIds' = IF interactionRef.type = "selecting"
                          THEN MarqueeSelection(e)
                          ELSE selectedTaskIds
    /\ guides' = <<>>
    /\ interaction' = IdleState

\* variant of handleMouseUp that only sets the type of the state to idle
handleMouseUp_keepFields(e) ==
    /\ rAF' = Null
    /\ frames' = IF rAF # Null /\ frames > 0 THEN frames - 1 ELSE frames
    /\ selectedTaskIds' = IF interactionRef.type = "selecting"
                          THEN MarqueeSelection(e)
                          ELSE selectedTaskIds
    /\ guides' = <<>>
    /\ interaction' = [interaction EXCEPT !.type = "idle"]

\* useCanvasInteraction.handleMouseUp
handleMouseUp(e) ==
    /\ rAF' = Null
    /\ frames' = IF rAF # Null /\ frames > 0 THEN frames - 1 ELSE frames
    /\ selectedTaskIds' = IF interactionRef.type = "selecting"
                          THEN MarqueeSelection(e)
                          ELSE selectedTaskIds
    /\ guides' = <<>>
    /\ interaction' = IdleState

\* variant of ConnectArgs with the task under the pointer as the source
ConnectArgs_reversed(targetId) == <<targetId, interaction.connectionStartId>>

\* handleConnectionEnd: the arguments of its onConnect call
ConnectArgs(targetId) == <<interaction.connectionStartId, targetId>>

\* variant of ConnectionDrop that accepts the task the gesture started from
ConnectionDrop_anyTarget(targetId) ==
    interaction.type = "connecting"

\* useCanvasInteraction.handleConnectionEnd takes the event: it stops the
\* propagation and calls onConnect
ConnectionDrop(targetId) ==
    /\ interaction.type = "connecting"
    /\ interaction.connectionStartId # targetId

ReleaseFrame(e, over, onConnectArgs) ==
    /\ held > 0
    /\ held' = held - 1
    /\ last' = [ev |-> "up", from |-> interaction.type, prev |-> last.ev,
                 onConnect |-> onConnectArgs,
                 over |-> IF interaction.type = "connecting" THEN over ELSE Null,
                 startId |-> IF interaction.type = "connecting"
                             THEN interaction.connectionStartId ELSE Null,
                 click |-> IF /\ last.ev = "press"
                              /\ last.etype = "task"
                              /\ last.button = 0
                              /\ last.id = over
                           THEN [id |-> over, shift |-> last.shift, selT0 |-> last.selT0]
                           ELSE IF /\ interaction.type = "dragging_node"
                                   /\ interaction.primaryId = over
                                THEN [id |-> over]
                                ELSE <<>>,
                 marquee |-> IF interaction.type = "selecting"
                             THEN [shift |-> e.shiftKey, x |-> e.clientX, y |-> e.clientY,
                                   startX |-> interaction.startX,
                                   startY |-> interaction.startY,
                                   selT0 |-> selectedTaskIds,
                                   selG0 |-> selectedGroupIds]
                             ELSE <<>>]
    /\ UNCHANGED <<groups, selectedGroupIds, viewport, interactionMode, isSpacePressed,
                   lastEventRef, pushCalls, walk, lastMove, nDown, gest>>
    /\ Commit

\* mouseup over the canvas background or a group: the canvas onMouseUp
CanvasMouseUp ==
    \E p \in ReleasePoints, s \in BOOLEAN :
        /\ handleMouseUp(EventAt(p, 0, s))
        /\ ReleaseFrame(EventAt(p, 0, s), Null, <<>>)
        /\ UNCHANGED <<tasks, history>>

\* mouseup over a task: TaskNode onMouseUp (handleConnectionEnd) first; the
\* event reaches the canvas onMouseUp and the window listener only when
\* handleConnectionEnd did not stop its propagation
TaskMouseUp ==
    \E p \in Points, s \in BOOLEAN, id \in TaskIds :
        /\ IF ConnectionDrop(id)
           THEN /\ handleConnectionMade(ConnectArgs(id)[1], ConnectArgs(id)[2])
                /\ UNCHANGED <<rAF, frames, selectedTaskIds, guides, interaction>>
           ELSE /\ handleMouseUp(EventAt(p, 0, s))
                /\ UNCHANGED <<tasks, history>>
        /\ ReleaseFrame(EventAt(p, 0, s), id,
                        IF ConnectionDrop(id)
                        THEN ConnectArgs(id)
                        ELSE <<>>)

\* mouseup outside the canvas: the window listener, bound while a gesture is
\* active
WindowMouseUp ==
    \E p \in ReleasePoints, s \in BOOLEAN :
        /\ interaction.type # "idle"
        /\ handleMouseUp(EventAt(p, 0, s))
        /\ ReleaseFrame(EventAt(p, 0, s), Null, <<>>)
        /\ UNCHANGED <<tasks, history>>

\* the click event that follows a left press and release on the same task,
\* with no pointer movement in between or at the end of a drag of that
\* task: TaskNode onClick, onSelect
TaskClick ==
    /\ last.ev = "up"
    /\ last.click # <<>>
    /\ selectedTaskIds' = {last.click.id}
    /\ selectedGroupIds' = {}
    /\ last' = IF "shift" \in DOMAIN last.click
               THEN [ev |-> "click", id |-> last.click.id, shift |-> last.click.shift,
                     selT0 |-> last.click.selT0]
               ELSE [ev |-> "dragclick", id |-> last.click.id, sel |-> selectedTaskIds]
    /\ UNCHANGED <<tasks, groups, viewport, history, interactionMode, hookVars, walk,
                   lastMove, nDown, held, gest>>
    /\ Commit

\* ------------------------------------------------------- application
\* the keyboard shortcuts and the dialog are used while no button is held
appFrameObserving(label, more) ==
    /\ held = 0
    /\ last' = [ev |-> label, afterUp |-> IF last.ev = "up" THEN last.from ELSE "none"] @@ more
    /\ gest' = IF interaction.type # "idle" THEN [gest EXCEPT !.clean = FALSE] ELSE gest
    /\ UNCHANGED <<selectedTaskIds, selectedGroupIds, viewport, interactionMode,
                   hookVars, walk, lastMove, nDown, held>>
    /\ Commit

appFrame(label) == appFrameObserving(label, <<>>)

\* variant of undo that restores the tasks and leaves the groups
undo_tasksOnly ==
    IF history.past = <<>>
    THEN UNCHANGED <<history, tasks, groups>>
    ELSE LET previous == history.past[Len(history.past)]
         IN  /\ history' = [past |-> SubSeq(history.past, 1, Len(history.past) - 1),
                            future |-> <<Snapshot>> \o history.future]
             /\ tasks' = previous.tasks
             /\ UNCHANGED groups

\* App.undo
undo ==
    IF history.past = <<>>
    THEN UNCHANGED <<history, tasks, groups>>
    ELSE LET previous == history.past[Len(history.past)]
         IN  /\ history' = [past |-> SubSeq(history.past, 1, Len(history.past) - 1),
                            future |-> <<Snapshot>> \o history.future]
             /\ tasks' = previous.tasks
             /\ groups' = previous.groups

\* variant of redo that restores the tasks and leaves the groups
redo_tasksOnly ==
    IF history.future = <<>>
    THEN UNCHANGED <<history, tasks, groups>>
    ELSE LET next == Head(history.future)
         IN  /\ history' = [past |-> Append(history.past, Snapshot),
                            future |-> Tail(history.future)]
             /\ tasks' = next.tasks
             /\ UNCHANGED groups

\* App.redo
redo ==
    IF history.future = <<>>
    THEN UNCHANGED <<history, tasks, groups>>
    ELSE LET next == Head(history.future)
         IN  /\ history' = [past |-> Append(history.past, Snapshot),
                            future |-> Tail(history.future)]
             /\ tasks' = next.tasks
             /\ groups' = next.groups

Undo == undo /\ appFrame("undo")

Redo == redo /\ appFrame("redo")

\* what is kept of an undo or redo for the step after it: the state it
\* started from, whether it changed the history, and the same of an undo
\* handled just before
HistoryStep ==
    [before |-> Snapshot, acted |-> history' # history,
     prior |-> IF last.ev = "undo"
               THEN [before |-> last.before, acted |-> last.acted]
               ELSE <<>>]

ObservedUndo == undo /\ appFrameObserving("undo", HistoryStep)

ObservedRedo == redo /\ appFrameObserving("redo", HistoryStep)

\* LinkTaskDialog onSelect: the dialog lists the tasks other than the source
\* that are not its direct children
LinkDialogSelect ==
    \E targetId \in TaskIds, sourceId \in TaskIds :
        /\ interaction.type = "idle"
        /\ Len(history.past) < MaxHistory
        /\ targetId # sourceId
        /\ tasks[targetId].parentId # sourceId
        /\ handleConnectionMade(targetId, sourceId)
        /\ appFrame("link")
        /\ UNCHANGED groups

\* CanvasDock onSetMode
SetInteractionMode ==
    /\ interactionMode' = IF interactionMode = "pointer" THEN "hand" ELSE "pointer"
    /\ nDown = 0
    /\ last' = Other
    /\ UNCHANGED <<tasks, groups, selectedTaskIds, selectedGroupIds, viewport, history,
                   hookVars, walk, lastMove, nDown, held, gest>>
    /\ Commit

\* the hook's keydown / keyup listeners for the space key
SpaceKey ==
    /\ isSpacePressed' = ~isSpacePressed
    /\ nDown = 0
    /\ last' = Other
    /\ UNCHANGED <<appVars, interaction, guides, rAF, lastEventRef, frames, pushCalls,
                   refVars, walk, lastMove, nDown, held, gest>>

Next ==
    \/ CanvasMouseDown
    \/ TaskMouseDown
    \/ GroupMouseDown
    \/ ResizeHandleMouseDown
    \/ ConnectionHandleMouseDown
    \/ CanvasMouseMove
    \/ WindowMouseMove
    \/ RunFrame
    \/ CanvasMouseUp
    \/ TaskMouseUp
    \/ WindowMouseUp
    \/ Undo
    \/ Redo
    \/ SetInteractionMode

Spec == Init /\ [][Next]_vars

\* the gestures with the space key and the mode switch, without the history
\* shortcuts
PanNext ==
    \/ CanvasMouseDown
    \/ TaskMouseDown
    \/ GroupMouseDown
    \/ ResizeHandleMouseDown
    \/ ConnectionHandleMouseDown
    \/ CanvasMouseMove
    \/ WindowMouseMove
    \/ RunFrame
    \/ CanvasMouseUp
    \/ TaskMouseUp
    \/ WindowMouseUp
    \/ SetInteractionMode
    \/ SpaceKey

PanSpec == Init /\ [][PanNext]_vars

\* the connection attempts alone: connecting gestures and the link dialog
ConnectNext ==
    \/ ConnectionHandleMouseDown
    \/ TaskMouseUp
    \/ CanvasMouseUp
    \/ LinkDialogSelect

ConnectSpec == Init /\ [][ConnectNext]_vars

\* ------------------------------------------------- gestures on a group
\* width and height of the group: far above the resize floor, and near it
GroupSizes == {<<400, 300>>, <<250, 110>>}

\* selections a press on a group meets: none, the group, two tasks
GroupSelections == {<<{}, {}>>, <<{}, {"G"}>>, <<{"A", "B"}, {}>>}

GroupInit ==
    /\ tasks = InitTasks
    /\ \E size \in GroupSizes :
          groups = [g \in GroupIds |->
                      [x |-> Wu(0), y |-> Wu(0), width |-> Wu(size[1]), height |-> Wu(size[2]),
                       locked |-> FALSE]]
    /\ \E sel \in GroupSelections :
          selectedTaskIds = sel[1] /\ selectedGroupIds = sel[2]
    /\ viewport \in [x : {0}, y : {0}, scale : Scales]
    /\ InitHook

GroupNext ==
    \/ GroupMouseDown
    \/ ResizeHandleMouseDown
    \/ CanvasMouseMove
    \/ WindowMouseMove
    \/ RunFrame
    \/ CanvasMouseUp
    \/ WindowMouseUp

GroupSpec == GroupInit /\ [][GroupNext]_vars

\* ------------------------------------------------ a resize among groups
\* two groups side by side, and the group selections a press on the handle
\* of one of them meets
TwoGroups ==
    [g \in {"G", "H"} |->
        [x |-> Wu(IF g = "G" THEN 0 ELSE 500), y |-> Wu(0),
         width |-> Wu(400), height |-> Wu(300), locked |-> FALSE]]

ResizeSelections == {{}, {"G"}, {"H"}, {"G", "H"}}

ResizeInit ==
    /\ tasks = InitTasks
    /\ groups = TwoGroups
    /\ selectedTaskIds \in InitSelections
    /\ selectedGroupIds \in ResizeSelections
    /\ viewport \in [x : {0}, y : {0}, scale : Scales]
    /\ InitHook

ResizeNext ==
    \/ ResizeHandleMouseDown
    \/ CanvasMouseMove
    \/ WindowMouseMove
    \/ RunFrame
    \/ CanvasMouseUp
    \/ WindowMouseUp

ResizeSpec == ResizeInit /\ [][ResizeNext]_vars

\* ------------------------------------- frames after different pointer paths
ReplayNext ==
    \/ TaskMouseDown
    \/ GroupMouseDown
    \/ ResizeHandleMouseDown
    \/ CanvasMouseMove
    \/ RecordedFrame
    \/ CanvasMouseUp

ReplaySpec == Init /\ [][ReplayNext]_vars

\* ------------------------------------------------------------ snap drags
\* sibling coordinates in half units around the position (95, 15) a drag of
\* task A by (190, 30) pixels proposes at scale 2: on x 5, 6, 6.5 and 7
\* world units to the right of it, or 3 and far, on y 5 below it or far.
\* Half-unit positions are what a group drag by an odd number of pixels at
\* scale 2 leaves its children at.
SiblingXs == {200, 202, 203, 204}
OtherXs == {196, 2000}
OtherYs == {40, 400}

SnapInit ==
    /\ \E bx \in SiblingXs, cx \in OtherXs, cy \in OtherYs :
          tasks = [t \in TaskIds |->
                     CASE t = "A" -> [x |-> Wu(0), y |-> Wu(0), parentId |-> NoParent]
                       [] t = "B" -> [x |-> bx, y |-> Wu(400), parentId |-> NoParent]
                       [] OTHER -> [x |-> cx, y |-> cy, parentId |-> NoParent]]
    /\ groups = InitGroups
    /\ selectedTaskIds = {}
    /\ selectedGroupIds = {}
    /\ viewport \in [x : {0}, y : {0}, scale : Scales]
    /\ InitHook

SnapNext ==
    \/ TaskMouseDown
    \/ GroupMouseDown
    \/ CanvasMouseMove
    \/ WindowMouseMove
    \/ RunFrame
    \/ CanvasMouseUp
    \/ WindowMouseUp

SnapSpec == SnapInit /\ [][SnapNext]_vars

\* ------------------------------------------------------ locked groups
\* G locked (as the welcome group is created), H not
LockedGroups == [TwoGroups EXCEPT !["G"].locked = TRUE]

LockInit ==
    /\ tasks = InitTasks
    /\ groups = LockedGroups
    /\ selectedTaskIds = {}
    /\ selectedGroupIds \in ResizeSelections
    /\ viewport \in [x : {0}, y : {0}, scale : Scales]
    /\ InitHook

LockNext ==
    \/ GroupMouseDown
    \/ ResizeHandleMouseDown
    \/ CanvasMouseMove
    \/ RunFrame
    \/ CanvasMouseUp

LockSpec == LockInit /\ [][LockNext]_vars

\* ------------------------------------------------ undo and redo
\* tasks and groups as a drag of the group by (190, 30) pixels leaves them
DraggedSnapshot ==
    [tasks |-> [t \in TaskIds |->
                   IF CenterInside(InitTasks[t], InitGroups["G"])
                   THEN [InitTasks[t] EXCEPT !.x = @ + WorldDelta(190), !.y = @ + WorldDelta(30)]
                   ELSE InitTasks[t]],
     groups |-> [InitGroups EXCEPT !["G"].x = @ + WorldDelta(190), !["G"].y = @ + WorldDelta(30)]]

\* the history at the start: empty, or holding that drag undone
Histories ==
    {[past |-> <<>>, future |-> <<>>],
     [past |-> <<>>, future |-> <<DraggedSnapshot>>]}

HistoryInit ==
    /\ tasks = InitTasks
    /\ groups = InitGroups
    /\ selectedTaskIds = {}
    /\ selectedGroupIds \in {{}, {"G"}}
    /\ viewport \in [x : {0}, y : {0}, scale : Scales]
    /\ history \in Histories
    /\ InitInteraction

HistoryNext ==
    \/ TaskMouseDown
    \/ GroupMouseDown
    \/ CanvasMouseMove
    \/ RunFrame
    \/ CanvasMouseUp
    \/ ObservedUndo
    \/ ObservedRedo

HistorySpec == HistoryInit /\ [][HistoryNext]_vars

\* ------------------------------------- repeated drags of a selection
\* a plain left mousedown on a task body: TaskNode onMouseDown
PlainTaskMouseDown ==
    \E p \in Points, id \in TaskIds :
        /\ handleNodeMouseDown(EventAt(p, 0, FALSE), id, "task")
        /\ PressFrame(SetsSelectionOnNode(EventAt(p, 0, FALSE), id, "task"))
        /\ last' = NodePress(EventAt(p, 0, FALSE), id, "task")

RedragNext ==
    \/ PlainTaskMouseDown
    \/ CanvasMouseMove
    \/ RunFrame
    \/ TaskMouseUp
    \/ CanvasMouseUp
    \/ TaskClick

RedragSpec == Init /\ [][RedragNext]_vars

\* ------------------------------------------------------ clicks on tasks
ClickNext ==
    \/ TaskMouseDown
    \/ CanvasMouseMove
    \/ RunFrame
    \/ TaskMouseUp
    \/ CanvasMouseUp
    \/ TaskClick
    \/ SetInteractionMode

ClickSpec == Init /\ [][ClickNext]_vars

\* ------------------------------------------- two buttons in one gesture
ChordNext ==
    \/ CanvasMouseDown
    \/ TaskMouseDown
    \/ ChordCanvasMouseDown
    \/ ChordTaskMouseDown
    \/ CanvasMouseMove
    \/ RunFrame
    \/ CanvasMouseUp

ChordSpec == Init /\ [][ChordNext]_vars

\* -------------------------------------- frames and their passive effects
EffectNext ==
    \/ CanvasMouseDown
    \/ TaskMouseDown
    \/ ConnectionHandleMouseDown
    \/ CanvasMouseMove
    \/ WindowMouseMove
    \/ FrameCallback
    \/ FlushEffects
    \/ CanvasMouseUp
    \/ TaskMouseUp
    \/ WindowMouseUp

EffectSpec == Init /\ [][EffectNext]_vars

\* ------------------------------------------------ marquees, zoomed out
\* the canvas zoomed in (scale 2) and zoomed out (scale 0.5), in halves
MarqueeScales == {1, 4}

MarqueeInit ==
    /\ tasks = InitTasks
    /\ groups = InitGroups
    /\ selectedTaskIds \in InitSelections
    /\ selectedGroupIds = {}
    /\ viewport \in [x : {0}, y : {0}, scale : MarqueeScales]
    /\ InitHook

MarqueeNext ==
    \/ CanvasMouseDown
    \/ CanvasMouseMove
    \/ WindowMouseMove
    \/ RunFrame
    \/ CanvasMouseUp
    \/ WindowMouseUp

MarqueeSpec == MarqueeInit /\ [][MarqueeNext]_vars

\* ------------------------------------------- the coordinate mapping alone
\* viewports and screen points the mapping is applied to: the scales 1 and 2,
\* which divide every number of half units, and 3, which does not (in
\* halves), offsets of both signs
MapScales == {2, 4, 6}
MapOffsets == {-5, 0, 7}
MapPoints == {<<0, 0>>, <<7, 100>>, <<190, 30>>, <<-4, 11>>}

MapInit ==
    /\ tasks = InitTasks
    /\ groups = InitGroups
    /\ selectedTaskIds = {}
    /\ selectedGroupIds = {}
    /\ viewport \in [x : MapOffsets, y : MapOffsets, scale : MapScales]
    /\ InitHook

mapFrame == UNCHANGED <<appVars, hookVars, refVars, walk, lastMove, nDown, held, gest>>

\* a call of screenToCanvas(sx, sy)
ScreenToCanvasCall ==
    \E p \in MapPoints :
        /\ last' = [ev |-> "toCanvas", s |-> p,
                     c |-> <<screenToCanvas(p[1], viewport.x),
                             screenToCanvas(p[2], viewport.y)>>]
        /\ mapFrame

\* the canvas transform applied to the point screenToCanvas returned
CanvasTransform ==
    /\ last.ev = "toCanvas"
    /\ last' = [ev |-> "toScreen", s |-> last.s, c |-> last.c,
                 back |-> <<canvasToScreen(last.c[1], viewport.x),
                            canvasToScreen(last.c[2], viewport.y)>>]
    /\ mapFrame

MapNext == ScreenToCanvasCall \/ CanvasTransform

MapSpec == MapInit /\ [][MapNext]_vars

\* ------------------------------------------- the ancestor walk, by steps
\* the saved tasks are loaded as they are: any parentId may be stored
ParentMaps == [TaskIds -> TaskIds \cup {NoParent}]

WalkInit ==
    /\ \E r \in ParentMaps :
          tasks = [t \in TaskIds |-> [InitTasks[t] EXCEPT !.parentId = r[t]]]
    /\ InitRest

walkFrame ==
    UNCHANGED <<appVars, hookVars, refVars, obsVars>>

\* handleConnectionMade reaches its call hasCycle(parentId, childId, tasks)
WalkCall ==
    \E parentId \in TaskIds, childId \in TaskIds :
        /\ walk.pc = "idle"
        /\ tasks[childId].parentId # parentId
        /\ walk' = [pc |-> "call", parentId |-> parentId, childId |-> childId,
                    result |-> FALSE, depth |-> 1]
        /\ walkFrame

\* one activation of hasCycle: return, or recurse on the parent's parent;
\* each recursion takes a stack frame, and the engine throws a RangeError
\* when no frame is left
WalkStep ==
    /\ walk.pc = "call"
    /\ walk' = IF walk.parentId = walk.childId
               THEN [walk EXCEPT !.pc = "done", !.result = TRUE]
               ELSE IF tasks[walk.parentId].parentId = NoParent
                    THEN [walk EXCEPT !.pc = "done", !.result = FALSE]
                    ELSE IF walk.depth < StackLimit
                         THEN [walk EXCEPT !.parentId = tasks[walk.parentId].parentId,
                                           !.depth = @ + 1]
                         ELSE [walk EXCEPT !.pc = "overflow"]
    /\ walkFrame

\* the RangeError leaves hasCycle and handleConnectionMade
WalkThrow ==
    /\ walk.pc = "overflow"
    /\ walk' = WalkIdle
    /\ walkFrame

\* the result is handed back to handleConnectionMade
WalkReturn ==
    /\ walk.pc = "done"
    /\ walk' = WalkIdle
    /\ walkFrame

WalkNext == WalkCall \/ WalkStep \/ WalkReturn \/ WalkThrow

\* a call runs to its end without yielding: its steps are always taken
WalkSpec == WalkInit /\ [][WalkNext]_vars /\ WF_vars(WalkStep)

\* ================================================================ claims
DragKinds == {"dragging_node", "dragging_group"}

CheckpointKinds == DragKinds \cup {"resizing_group"}

\* the gesture under observation: one press from idle, nothing interleaved
OneGesture == gest.downs = 1 /\ gest.clean

\* C1: a drag or resize gesture calls pushHistory exactly once, at its
\* pointer-down: from the press on, through every processed frame and the
\* pointer-up, the number of calls is one more than before the press
C1_OneCheckpointPerGesture ==
    (gest.downs = 1 /\ gest.kind \in CheckpointKinds) => pushCalls = gest.push0 + 1

\* C1 witness: a task drag that moved its targets in a processed frame has
\* been released
C1_Witness ==
    /\ last.ev = "up"
    /\ last.from = "dragging_node"
    /\ gest.downs = 1
    /\ \E t \in TaskIds : Pos(tasks[t]) # Pos(gest.tasks0[t])
    /\ pushCalls = gest.push0 + 1

\* the positions of all tasks and groups are those of the gesture's start
AtGestureStart ==
    /\ \A t \in TaskIds : Pos(tasks[t]) = Pos(gest.tasks0[t])
    /\ \A g \in GroupIds : Pos(groups[g]) = Pos(gest.groups0[g])

\* C2: the checkpoint of a drag gesture is committed at the press, before
\* any position update, and records the pre-gesture state; an undo directly
\* after the gesture's pointer-up puts every task and group back where it
\* was before the pointer-down
C2_UndoRestoresGestureStart ==
    /\ (last.ev = "press" /\ interaction.type \in DragKinds /\ gest.downs = 1) =>
          /\ history.past # <<>>
          /\ history.past[Len(history.past)] =
                [tasks |-> gest.tasks0, groups |-> gest.groups0]
          /\ AtGestureStart
    /\ (last.ev = "undo" /\ last.afterUp \in DragKinds /\ OneGesture) => AtGestureStart

\* C2 witness: a group drag that moved the group and its children has been
\* released and undone
C2_Witness ==
    /\ last.ev = "undo"
    /\ last.afterUp = "dragging_group"
    /\ OneGesture
    /\ history.future # <<>>
    /\ Pos(Head(history.future).groups["G"]) # Pos(groups["G"])
    /\ Pos(Head(history.future).tasks["A"]) # Pos(tasks["A"])
    /\ AtGestureStart

\* the offset of task t from its position at the gesture's start
Moved(t) == [x |-> tasks[t].x - gest.tasks0[t].x, y |-> tasks[t].y - gest.tasks0[t].y]

\* C3: after a processed frame of a task drag every target stands at its
\* own starting position plus one delta common to all targets, and no other
\* task has moved
C3_RigidMultiDrag ==
    (last.ev = "frame" /\ last.type = "dragging_node" /\ gest.downs = 1) =>
        /\ \A a, b \in interaction.targetIds : Moved(a) = Moved(b)
        /\ \A t \in TaskIds \ interaction.targetIds : Moved(t) = [x |-> 0, y |-> 0]

\* C3 witness: a frame moved two targets, by a delta that snapping changed
C3_Witness ==
    /\ last.ev = "frame"
    /\ last.type = "dragging_node"
    /\ gest.downs = 1
    /\ Cardinality(interaction.targetIds) >= 2
    /\ \E t \in interaction.targetIds :
          /\ Moved(t) # [x |-> 0, y |-> 0]
          /\ Moved(t).x # WorldDelta(last.used[1] - interaction.startX)

\* tasks whose center (300 by 150 box) lay in a dragged group at the press
ChildrenAtPress ==
    {t \in TaskIds : \E g \in interaction.targetIds :
        /\ 2 * gest.tasks0[t].x + Wu(300) >= 2 * gest.groups0[g].x
        /\ 2 * gest.tasks0[t].x + Wu(300) <= 2 * (gest.groups0[g].x + gest.groups0[g].width)
        /\ 2 * gest.tasks0[t].y + Wu(150) >= 2 * gest.groups0[g].y
        /\ 2 * gest.tasks0[t].y + Wu(150) <= 2 * (gest.groups0[g].y + gest.groups0[g].height)}

\* the raw pointer delta of the last frame, in world half units
RawDelta ==
    [x |-> (4 * (last.used[1] - interaction.startX)) \div viewport.scale,
     y |-> (4 * (last.used[2] - interaction.startY)) \div viewport.scale]

\* C4: the child set of a group drag is the set of tasks whose center lay
\* in a dragged group at the press; every frame places each dragged group
\* and each child at its start plus the raw pointer delta, and a task
\* outside the set is never moved
C4_ChildrenFrozenAtPress ==
    /\ (last.ev = "press" /\ interaction.type = "dragging_group" /\ gest.downs = 1) =>
          /\ interaction.draggedChildrenIds = ChildrenAtPress
          /\ DOMAIN interaction.initialChildrenPositions = ChildrenAtPress
    /\ (last.ev = "frame" /\ last.type = "dragging_group" /\ gest.downs = 1) =>
          /\ \A g \in interaction.targetIds :
                /\ groups[g].x = gest.groups0[g].x + RawDelta.x
                /\ groups[g].y = gest.groups0[g].y + RawDelta.y
          /\ \A t \in ChildrenAtPress : Moved(t) = RawDelta
          /\ \A t \in TaskIds \ ChildrenAtPress : Moved(t) = [x |-> 0, y |-> 0]

\* C4 witness: the dragged group now covers the center of a task that was
\* outside it at the press, and a child has left its original rectangle
C4_Witness ==
    /\ last.ev = "frame"
    /\ last.type = "dragging_group"
    /\ gest.downs = 1
    /\ "C" \notin ChildrenAtPress
    /\ CenterInside(tasks["C"], groups["G"])
    /\ "A" \in ChildrenAtPress
    /\ Moved("A") # [x |-> 0, y |-> 0]
    /\ Moved("C") = [x |-> 0, y |-> 0]

\* C5: every handled pointer-up leaves the machine idle with no guides
C5_PointerUpReturnsToIdle ==
    last.ev = "up" => (interaction.type = "idle" /\ guides = <<>>)

\* C6: at most one recomputation is pending at any time, and a frame that
\* runs uses the coordinates of the most recent move
C6_OneFramePerMoveBurst ==
    /\ frames <= 1
    /\ last.ev = "frame" => last.used = lastMove

\* C6 witness: a frame ran during a gesture after a later move had replaced
\* the coordinates of the move that scheduled it
C6_Witness ==
    /\ last.ev = "frame"
    /\ last.superseded
    /\ last.type # "idle"
    /\ last.used = lastMove

\* the proper ancestors of task t reachable in at most n parent links
RECURSIVE AncestorsWithin(_, _)
AncestorsWithin(t, n) ==
    IF n = 0 \/ tasks[t].parentId = NoParent
    THEN {}
    ELSE {tasks[t].parentId} \cup AncestorsWithin(tasks[t].parentId, n - 1)

\* C7: from a forest, no sequence of connection attempts makes a task its
\* own ancestor: the parentId relation stays acyclic
C7_ParentRelationAcyclic ==
    \A t \in TaskIds : t \notin AncestorsWithin(t, Cardinality(TaskIds))

\* C7 witness: with C's parent B and B's parent A, the gesture that proposes
\* C as the parent of A was handled and added no edge and no checkpoint
C7_Witness ==
    /\ last.ev = "up"
    /\ last.from = "connecting"
    /\ last.onConnect = <<"C", "A">>
    /\ tasks["C"].parentId = "B"
    /\ tasks["B"].parentId = "A"
    /\ tasks["A"].parentId = NoParent
    /\ Len(history.past) = 2

\* C8: every call of the ancestor walk returns a result, whatever parentId
\* relation the task list holds: the recursion never exhausts the stack
C8_WalkTerminates == walk.pc # "overflow"

\* a press on a task body that passed the button and mode guards
TaskPressed ==
    last.ev = "press" /\ last.etype = "task" /\ last.button = 0 /\ last.mode = "pointer"

\* C9: a shift press toggles the pressed task and leaves the other members;
\* a plain press on an unselected task makes it the only selected task and
\* clears the group selection; a plain press on a selected task changes
\* neither selection
C9_PressSelectionRule ==
    TaskPressed =>
        /\ last.shift =>
              /\ (last.id \in selectedTaskIds) = (last.id \notin last.selT0)
              /\ selectedTaskIds \ {last.id} = last.selT0 \ {last.id}
        /\ (~last.shift /\ last.id \notin last.selT0) =>
              (selectedTaskIds = {last.id} /\ selectedGroupIds = {})
        /\ (~last.shift /\ last.id \in last.selT0) =>
              (selectedTaskIds = last.selT0 /\ selectedGroupIds = last.selG0)

\* C9 witness: a shift press removed one of two selected tasks
C9_Witness ==
    /\ TaskPressed
    /\ last.shift
    /\ last.id \in last.selT0
    /\ Cardinality(last.selT0) = 2
    /\ selectedTaskIds = last.selT0 \ {last.id}

\* C10: the tasks a task drag moves are the selection resulting from the
\* press, or the pressed task alone when that selection is empty
C10_DragSetIsResultingSelection ==
    TaskPressed =>
        LET moved == IF selectedTaskIds # {} THEN selectedTaskIds ELSE {last.id}
        IN  /\ interaction.type = "dragging_node"
            /\ interaction.targetIds = moved
            /\ DOMAIN interaction.initialPositions = moved

\* a press on a group body that passed the button and mode guards
GroupPressed ==
    last.ev = "press" /\ last.etype = "group" /\ last.button = 0 /\ last.mode = "pointer"

\* C11: a press on a group follows the task rule with the two selections
\* swapped: shift toggles the pressed group in the group selection; a plain
\* press on an unselected group selects it alone and empties the task
\* selection; a plain press on a selected group keeps the group selection;
\* the groups dragged are the resulting group selection, or the pressed
\* group when that is empty
C11_GroupPressSelectionRule ==
    GroupPressed =>
        /\ last.shift =>
              /\ (last.id \in selectedGroupIds) = (last.id \notin last.selG0)
              /\ selectedGroupIds \ {last.id} = last.selG0 \ {last.id}
        /\ (~last.shift /\ last.id \notin last.selG0) =>
              (selectedGroupIds = {last.id} /\ selectedTaskIds = {})
        /\ (~last.shift /\ last.id \in last.selG0) => selectedGroupIds = last.selG0
        /\ interaction.type = "dragging_group"
        /\ interaction.targetIds =
              IF selectedGroupIds # {} THEN selectedGroupIds ELSE {last.id}

\* a press from idle with one of the three panning triggers
PanTrigger ==
    /\ last.ev = "press"
    /\ last.from = "idle"
    /\ \/ last.button = 1
       \/ last.button = 0 /\ (last.space \/ last.mode = "hand")

\* C12: from idle, a middle-button press, or a left-button press with the
\* space key held or in hand mode, starts a panning gesture whatever is
\* under the pointer
C12_PanTriggerAlwaysPans == PanTrigger => interaction.type = "panning"

\* a left press on the empty canvas in pointer mode, space not held
CanvasPressed ==
    /\ last.ev = "press"
    /\ last.etype = "canvas"
    /\ last.button = 0
    /\ last.mode = "pointer"
    /\ ~last.space

\* C13: such a press enters selecting with anchor and current pointer at the
\* press point; without shift both selections are emptied at the press,
\* with shift both are left as they were
C13_CanvasPressStartsMarquee ==
    CanvasPressed =>
        /\ interaction.type = "selecting"
        /\ interaction.startX = last.x /\ interaction.startY = last.y
        /\ interaction.currentX = last.x /\ interaction.currentY = last.y
        /\ ~last.shift => (selectedTaskIds = {} /\ selectedGroupIds = {})
        /\ last.shift =>
              (selectedTaskIds = last.selT0 /\ selectedGroupIds = last.selG0)

\* C13 witness: a plain press away from the origin emptied a selection of
\* two tasks
C13_Witness ==
    /\ CanvasPressed
    /\ ~last.shift
    /\ last.selT0 = {"A", "B"}
    /\ selectedTaskIds = {}
    /\ last.x # 0
    /\ interaction.type = "selecting"

\* the marquee of the release just handled, in world half units: the two
\* corners (sx - viewport.x) / scale
MarqueeCorner(sx, sy) ==
    [x |-> (4 * (sx - viewport.x)) \div viewport.scale,
     y |-> (4 * (sy - viewport.y)) \div viewport.scale]

MarqueeRect ==
    LET a == MarqueeCorner(last.marquee.startX, last.marquee.startY)
        b == MarqueeCorner(last.marquee.x, last.marquee.y)
    IN  [left |-> IF a.x < b.x THEN a.x ELSE b.x,
         right |-> IF a.x < b.x THEN b.x ELSE a.x,
         top |-> IF a.y < b.y THEN a.y ELSE b.y,
         bottom |-> IF a.y < b.y THEN b.y ELSE a.y]

\* tasks whose 300 by 150 rectangle overlaps the marquee
MarqueeHit ==
    {t \in TaskIds :
        /\ tasks[t].x < MarqueeRect.right
        /\ tasks[t].x + Wu(300) > MarqueeRect.left
        /\ tasks[t].y < MarqueeRect.bottom
        /\ tasks[t].y + Wu(150) > MarqueeRect.top}

MarqueeReleased ==
    /\ last.ev = "up"
    /\ last.from = "selecting"
    /\ \/ MarqueeRect.right - MarqueeRect.left > Wu(5)
       \/ MarqueeRect.bottom - MarqueeRect.top > Wu(5)

\* C14: at the release of a marquee larger than the minimum, with shift the
\* task selection becomes the symmetric difference of the selection at
\* release and the intersected tasks, without shift exactly the intersected
\* tasks
C14_MarqueeRelease ==
    MarqueeReleased =>
        /\ last.marquee.shift =>
              selectedTaskIds =
                 (last.marquee.selT0 \ MarqueeHit) \cup (MarqueeHit \ last.marquee.selT0)
        /\ ~last.marquee.shift => selectedTaskIds = MarqueeHit

\* C14 witness: a shift marquee over one of two selected tasks removed it
C14_Witness ==
    /\ MarqueeReleased
    /\ last.marquee.shift
    /\ last.marquee.selT0 = {"A", "B"}
    /\ MarqueeHit = {"A"}
    /\ selectedTaskIds = {"B"}

\* C17: a processed frame of a task drag with more than one target places
\* every target at its start plus the raw pointer delta and leaves no guide
C17_MultiDragUnsnapped ==
    (/\ last.ev = "frame"
     /\ last.type = "dragging_node"
     /\ gest.downs = 1
     /\ Cardinality(interaction.targetIds) > 1) =>
        /\ \A t \in interaction.targetIds : Moved(t) = RawDelta
        /\ guides = <<>>

\* C20: a panning, selecting or connecting gesture commits no checkpoint,
\* and neither does a press on a task or group released before any pointer
\* movement was handled
C20_CheckpointOnlyWithMutation ==
    (last.ev = "up" /\ gest.downs = 1) =>
        /\ last.from \in {"panning", "selecting", "connecting"} => pushCalls = gest.push0
        /\ (last.from \in DragKinds /\ last.prev = "press") => pushCalls = gest.push0

ResizeFrame ==
    /\ last.ev = "frame"
    /\ last.type = "resizing_group"
    /\ last.used # NoEvent
    /\ gest.downs = 1

\* C19: every processed frame of a group resize sets the width to the
\* larger of 200 and the start width plus the raw pointer delta, and the
\* height to the larger of 100 and the start height plus the raw delta
C19_ResizeClamped ==
    ResizeFrame =>
        \A g \in interaction.targetIds :
            /\ groups[g].width =
                  IF gest.groups0[g].width + RawDelta.x < Wu(200)
                  THEN Wu(200) ELSE gest.groups0[g].width + RawDelta.x
            /\ groups[g].height =
                  IF gest.groups0[g].height + RawDelta.y < Wu(100)
                  THEN Wu(100) ELSE gest.groups0[g].height + RawDelta.y
            /\ groups[g].width >= Wu(200)
            /\ groups[g].height >= Wu(100)

\* C19 witness: a resize below both floors was applied as the floors
C19_Witness ==
    /\ ResizeFrame
    /\ gest.groups0["G"].width + RawDelta.x < Wu(200)
    /\ gest.groups0["G"].height + RawDelta.y < Wu(100)
    /\ gest.groups0["G"].width > Wu(200)
    /\ groups["G"].width = Wu(200)
    /\ groups["G"].height = Wu(100)

\* a processed frame of a drag of one task
SingleDragFrame ==
    /\ last.ev = "frame"
    /\ last.type = "dragging_node"
    /\ last.used # NoEvent
    /\ gest.downs = 1
    /\ Cardinality(interaction.targetIds) = 1

Dragged == CHOOSE t \in interaction.targetIds : TRUE

\* the proposed position: start plus raw pointer delta
ProposedX == gest.tasks0[Dragged].x + RawDelta.x
ProposedY == gest.tasks0[Dragged].y + RawDelta.y

\* 12 / scale, in half units
SnapThreshold == (4 * 12) \div viewport.scale

\* the five alignments of a dragged extent [p, p + len] with a sibling
\* extent [s, s + len] (both have the same length), as pairs of the
\* coordinate that realises the alignment, the sibling line aligned to and
\* the distance: left-left, right-left, left-right, right-right, centers
Alignments(p, s, len) ==
    {<<s, s, Abs(p - s)>>,
     <<s - len, s, Abs((p + len) - s)>>,
     <<s + len, s + len, Abs(p - (s + len))>>,
     <<s, s + len, Abs((p + len) - (s + len))>>,
     <<s, s + len \div 2, Abs((p + len \div 2) - (s + len \div 2))>>}

XAlignments ==
    UNION {Alignments(ProposedX, tasks[o].x, Wu(300)) : o \in TaskIds \ {Dragged}}

YAlignments ==
    UNION {Alignments(ProposedY, tasks[o].y, Wu(100)) : o \in TaskIds \ {Dragged}}

MinDist(cands) == CHOOSE d \in {c[3] : c \in cands} : \A c \in cands : d <= c[3]

Nearest(cands) == {c \in cands : c[3] = MinDist(cands)}

\* C15: in a drag of one task, on each axis by itself, when some alignment
\* with a non-dragged task is within 12 / scale of the proposed rectangle the
\* emitted coordinate is the one of a minimum-distance alignment over all
\* siblings
C15_SnapToNearestAlignment ==
    SingleDragFrame =>
        /\ MinDist(XAlignments) <= SnapThreshold =>
              tasks[Dragged].x \in {c[1] : c \in Nearest(XAlignments)}
        /\ MinDist(YAlignments) <= SnapThreshold =>
              tasks[Dragged].y \in {c[1] : c \in Nearest(YAlignments)}

\* C15 witness: task A was aligned on x with B, exactly 12 / scale away
\* from the proposed position, and on y with C
C15_Witness ==
    /\ SingleDragFrame
    /\ Dragged = "A"
    /\ tasks["A"].x = tasks["B"].x
    /\ tasks["A"].x # tasks["C"].x
    /\ tasks["A"].y = tasks["C"].y
    /\ tasks["A"].y # tasks["B"].y
    /\ MinDist(XAlignments) = SnapThreshold

\* the multiple of 10 world units nearest to a half-unit value (ties up)
NearestGridLine(v) == 20 * ((v + 10) \div 20)

HasGuide(type) == \E i \in 1..Len(guides) : guides[i].type = type

\* C16: in a drag of one task, on an axis where every alignment with every
\* non-dragged task is farther than 12 / scale from the proposed rectangle,
\* the emitted coordinate is the proposed one rounded to the nearest
\* multiple of 10 and there is no guide for the axis
C16_GridBeyondThreshold ==
    SingleDragFrame =>
        /\ MinDist(XAlignments) > SnapThreshold =>
              /\ tasks[Dragged].x = NearestGridLine(ProposedX)
              /\ ~HasGuide("vertical")
        /\ MinDist(YAlignments) > SnapThreshold =>
              /\ tasks[Dragged].y = NearestGridLine(ProposedY)
              /\ ~HasGuide("horizontal")

GuidesOf(type) == {i \in 1..Len(guides) : guides[i].type = type}

\* the guide of an axis, when there is one, lies on the sibling line of an
\* alignment that the emitted coordinate realises; without a guide the
\* coordinate is the grid fallback and no alignment was within 12 / scale
AxisGuide(type, cands, emitted, proposed) ==
    /\ Cardinality(GuidesOf(type)) <= 1
    /\ \A i \in GuidesOf(type) :
          \E c \in cands : emitted = c[1] /\ guides[i].pos = c[2]
    /\ GuidesOf(type) = {} =>
          /\ emitted = NearestGridLine(proposed)
          /\ MinDist(cands) > SnapThreshold

\* C18: after a processed frame of a drag of one task the guide list holds
\* at most one vertical and one horizontal guide, each present exactly when
\* its axis was snapped to a sibling and lying on the sibling line aligned
\* to; the list is empty in idle and during a group drag
C18_GuidesFollowSnaps ==
    /\ interaction.type \in {"idle", "dragging_group"} => guides = <<>>
    /\ SingleDragFrame =>
          /\ GuidesOf("vertical") \cup GuidesOf("horizontal") = 1..Len(guides)
          /\ AxisGuide("vertical", XAlignments, tasks[Dragged].x, ProposedX)
          /\ AxisGuide("horizontal", YAlignments, tasks[Dragged].y, ProposedY)

\* C18 witness: x was snapped to a sibling and y fell back to the grid, and
\* the only guide is the vertical one on the sibling's line
C18_Witness ==
    /\ SingleDragFrame
    /\ Len(guides) = 1
    /\ guides[1].type = "vertical"
    /\ \E o \in TaskIds \ {Dragged} : guides[1].pos = tasks[o].x
    /\ tasks[Dragged].x # ProposedX
    /\ tasks[Dragged].y = NearestGridLine(ProposedY)
    /\ tasks[Dragged].y # ProposedY

\* C21: a pointer-up that ends a connecting gesture over the task it
\* started from, or over no task, calls onConnect not at all, leaves the
\* tasks (every parentId) and the history as they were and makes the
\* interaction idle
C21_ConnectionMissIsSilent ==
    [][(/\ interaction.type = "connecting"
        /\ last'.ev = "up"
        /\ last'.over \in {Null, interaction.connectionStartId})
       => (/\ last'.onConnect = <<>>
           /\ tasks' = tasks
           /\ history' = history
           /\ interaction' = IdleState)]_vars

\* C21 witness: a connection was released over its own start task
C21_Witness ==
    /\ last.ev = "up"
    /\ last.from = "connecting"
    /\ last.over # Null
    /\ last.over = last.startId
    /\ last.onConnect = <<>>
    /\ interaction.type = "idle"

\* C22: a connecting gesture started on task S and released over another
\* task T calls onConnect(S, T), once, at that release; a release in any
\* other interaction state calls onConnect not at all
C22_ConnectionDropCallsOnConnect ==
    last.ev = "up" =>
        /\ (last.from = "connecting" /\ last.over \notin {Null, last.startId}) =>
              last.onConnect = <<last.startId, last.over>>
        /\ last.from # "connecting" => last.onConnect = <<>>

\* C22 witness: the connection from A was released over C
C22_Witness ==
    /\ last.ev = "up"
    /\ last.from = "connecting"
    /\ last.startId = "A"
    /\ last.over = "C"
    /\ last.onConnect = <<"A", "C">>
    /\ tasks["C"].parentId = "A"

\* C23: a press made in hand mode starts at most a panning gesture; while
\* the mode is hand no checkpoint has been committed, no task or group has
\* been moved or resized, and no release has called onConnect
C23_HandModeOnlyPans ==
    /\ (last.ev = "press" /\ last.mode = "hand") =>
          interaction.type \in {"idle", "panning"}
    /\ (interactionMode = "hand" /\ nDown > 0) =>
          /\ interaction.type \in {"idle", "panning"}
          /\ pushCalls = 0
          /\ history.past = <<>>
          /\ tasks = InitTasks
          /\ groups = InitGroups
          /\ last.ev = "up" => last.onConnect = <<>>

\* C23 witness: a left press on a connection handle in hand mode started
\* nothing
C23_Witness ==
    /\ last.ev = "press"
    /\ last.mode = "hand"
    /\ last.etype = "handle"
    /\ last.button = 0
    /\ interaction.type = "idle"
    /\ pushCalls = 0

C30_SmallMarqueeKeepsSelection ==
    (/\ last.ev = "up"
     /\ last.from = "selecting"
     /\ Abs(last.marquee.x - last.marquee.startX) <= 5
     /\ Abs(last.marquee.y - last.marquee.startY) <= 5) =>
        /\ selectedTaskIds = last.marquee.selT0
        /\ selectedGroupIds = last.marquee.selG0

\* C26: a complete shift-click on a task toggles the task in the task
\* selection that existed before the press and changes no other member; a
\* complete plain click makes the task selection exactly the task
C26_ClickSelection ==
    last.ev = "click" =>
        IF last.shift
        THEN selectedTaskIds =
                IF last.id \in last.selT0
                THEN last.selT0 \ {last.id}
                ELSE last.selT0 \cup {last.id}
        ELSE selectedTaskIds = {last.id}

\* what a gesture captured at its pointer-down
Captured(i) ==
    IF "initialPositions" \in DOMAIN i THEN i.initialPositions ELSE <<>>

\* C28: a pointer-down received while the interaction state is not idle
\* changes neither the kind, the anchor nor the captured snapshot of the
\* state, and commits no additional checkpoint
C28_PressWhileActiveIgnored ==
    [][(held' > held /\ interaction.type # "idle") =>
          /\ interaction'.type = interaction.type
          /\ interaction'.startX = interaction.startX
          /\ interaction'.startY = interaction.startY
          /\ Captured(interaction') = Captured(interaction)
          /\ pushCalls' = pushCalls]_vars

\* C24: each processed frame of a panning gesture adds (current pointer -
\* previously processed pointer) to the viewport offset, the anchor standing
\* for the previously processed pointer at the first frame, and changes
\* neither the scale nor any task, group or selection set
C24_PanFrameAddsIncrement ==
    [][(last'.ev = "frame" /\ frames' < frames /\ interaction.type = "panning") =>
          /\ viewport'.x = viewport.x + (lastEventRef[1] - interaction.currentX)
          /\ viewport'.y = viewport.y + (lastEventRef[2] - interaction.currentY)
          /\ viewport'.scale = viewport.scale
          /\ UNCHANGED <<tasks, groups, selectedTaskIds, selectedGroupIds>>]_vars

\* C29: during an active gesture rAF.current is non-null only while a frame
\* callback is pending, also after the window listeners were torn down and
\* attached again in the middle of the gesture
C29_FlagOnlyWhilePending ==
    (interaction.type # "idle" /\ rAF # Null) => frames > 0

\* a frame callback runs while no button is held, after a release
FrameAfterRelease ==
    /\ held = 0
    /\ nDown > 0
    /\ last'.ev = "frame"
    /\ frames' < frames

TaskDragFrame ==
    /\ last.ev = "frame"
    /\ last.type = "dragging_node"
    /\ last.used # NoEvent
    /\ gest.downs = 1

\* the alignments of the proposed rectangle of the primary task with the
\* tasks of the given set, on each axis
XAlignmentsWith(others) ==
    UNION {Alignments(gest.tasks0[interaction.primaryId].x + RawDelta.x,
                      tasks[o].x, Wu(300)) : o \in others}

YAlignmentsWith(others) ==
    UNION {Alignments(gest.tasks0[interaction.primaryId].y + RawDelta.y,
                      tasks[o].y, Wu(100)) : o \in others}

\* the emitted coordinate is the grid fallback or realises an alignment of
\* cands, and every guide of the axis lies on the line of such an alignment
AlignedOnlyTo(type, cands, emitted, proposed) ==
    /\ \/ emitted = NearestGridLine(proposed)
       \/ \E c \in cands : emitted = c[1]
    /\ \A i \in GuidesOf(type) :
          \E c \in cands : emitted = c[1] /\ guides[i].pos = c[2]

\* C31: the position a frame emits for the dragged task is aligned only to
\* edges and centers of tasks that are not targets of the gesture: neither
\* the dragged task nor another target is a snap candidate
C31_SnapIgnoresTargets ==
    TaskDragFrame =>
        LET still == TaskIds \ interaction.targetIds
            p == interaction.primaryId
        IN  /\ AlignedOnlyTo("vertical", XAlignmentsWith(still), tasks[p].x,
                             gest.tasks0[p].x + RawDelta.x)
            /\ AlignedOnlyTo("horizontal", YAlignmentsWith(still), tasks[p].y,
                             gest.tasks0[p].y + RawDelta.y)

\* C31 witness: two tasks are dragged, the proposed position of the primary
\* is within the threshold of an edge the other target had before the
\* frame, and the frame emitted no vertical guide
C31_Witness ==
    /\ TaskDragFrame
    /\ Cardinality(interaction.targetIds) = 2
    /\ \E o \in interaction.targetIds \ {interaction.primaryId} :
          \E c \in Alignments(gest.tasks0[interaction.primaryId].x + RawDelta.x,
                              gest.tasks0[o].x, Wu(300)) : c[3] <= SnapThreshold
    /\ GuidesOf("vertical") = {}

\* C32: an onConnect(parent, child) whose child already has that parent, or
\* whose child is the parent or one of its ancestors, changes neither the
\* task list nor the history; any other pushes exactly one checkpoint, the
\* task and group lists before the call, and changes only the child's parentId
C32_ConnectRejectsOrLinks ==
    [][(last'.ev = "up" /\ last'.onConnect # <<>>) =>
          LET parent == last'.onConnect[1]
              child == last'.onConnect[2]
          IN  IF \/ tasks[child].parentId = parent
                 \/ child = parent
                 \/ child \in AncestorsWithin(parent, Cardinality(TaskIds))
              THEN tasks' = tasks /\ history' = history
              ELSE /\ tasks' = [tasks EXCEPT ![child].parentId = parent]
                   /\ history'.past = Append(history.past, Snapshot)]_vars

\* C32 witness: B was already the child of A when a connection from A was
\* dropped on B; nothing changed and the history holds the one checkpoint of
\* the earlier link
C32_Witness ==
    /\ last.ev = "up"
    /\ last.onConnect = <<"A", "B">>
    /\ gest.tasks0["B"].parentId = "A"
    /\ tasks = gest.tasks0
    /\ Len(history.past) = 1

\* a frame callback runs while the state is selecting or connecting
MarqueeOrConnectFrame ==
    /\ last'.ev = "frame"
    /\ frames' < frames
    /\ interaction.type \in {"selecting", "connecting"}

\* C33: a processed frame while the state is selecting or connecting sets
\* currentX/currentY to the pointer and changes nothing else: the other
\* fields of the state, tasks, groups, viewport, selections and guides stay
\* and neither the history nor the count of pushHistory calls changes
C33_FrameOnlyTracksPointer ==
    [][MarqueeOrConnectFrame =>
          /\ interaction' = [interaction EXCEPT !.currentX = lastEventRef[1],
                                                !.currentY = lastEventRef[2]]
          /\ UNCHANGED <<tasks, groups, viewport, selectedTaskIds, selectedGroupIds,
                         guides, history, pushCalls>>]_vars

\* C33 witness: a frame of a connection from A followed the pointer away
\* from the anchor
C33_Witness ==
    /\ last.ev = "frame"
    /\ last.type = "connecting"
    /\ interaction.type = "connecting"
    /\ interaction.connectionStartId = "A"
    /\ interaction.startX = 0
    /\ interaction.currentX = 190
    /\ interaction.currentY = 30

\* a press on the resize handle of a group starts a gesture
ResizePressed ==
    /\ held' > held
    /\ last'.ev = "press"
    /\ last'.etype = "resize"
    /\ interaction'.type = "resizing_group"

\* C34: a press on a group's resize handle targets that group alone,
\* whatever is selected, and no step of the resizing gesture changes another
\* group's size, the position of a group or task, a selection set or the
\* viewport
C34_ResizeChangesOneGroup ==
    [][/\ ResizePressed =>
              /\ interaction'.targetIds = {last'.id}
              /\ UNCHANGED <<tasks, groups, selectedTaskIds, selectedGroupIds, viewport>>
       /\ interaction.type = "resizing_group" =>
              /\ \A g \in DOMAIN groups :
                    /\ g \notin interaction.targetIds => groups'[g] = groups[g]
                    /\ Pos(groups'[g]) = Pos(groups[g])
              /\ UNCHANGED <<tasks, selectedTaskIds, selectedGroupIds, viewport>>]_vars

\* C34 witness: with the other group H selected, a frame resized G and left
\* H as it was
C34_Witness ==
    /\ last.ev = "frame"
    /\ last.type = "resizing_group"
    /\ interaction.targetIds = {"G"}
    /\ selectedGroupIds = {"H"}
    /\ groups["G"].width # TwoGroups["G"].width
    /\ groups["G"].height # TwoGroups["G"].height
    /\ groups["H"] = TwoGroups["H"]

\* a processed frame of a drag or resize gesture
ReplayedFrame ==
    /\ last.ev = "frame"
    /\ last.used # NoEvent
    /\ last.type \in CheckpointKinds
    /\ gest.downs = 1

\* the position the snapshot, the scale, the other tasks and the pointer
\* position of the last frame give the primary task of a task drag
SnappedPrimary ==
    LET start == gest.tasks0[interaction.primaryId]
    IN  calculateSnap(interaction.primaryId, start.x + RawDelta.x, start.y + RawDelta.y)

\* C35: what a drag or resize frame emits is a function of the snapshot
\* taken at pointer-down, the scale, the geometry of the non-dragged tasks
\* and the pointer position the frame processed, whatever positions earlier
\* frames processed: task-drag targets stand at their start plus the snap
\* offset of the primary, dragged groups and their children at their start
\* plus the raw delta, a resized group has its start size plus the raw
\* delta floored at 200 by 100, everything else is as at pointer-down, and
\* a group-drag frame at the anchor puts groups and tasks back where they
\* started
C35_FrameDependsOnSnapshotAndPointer ==
    ReplayedFrame =>
        /\ last.type = "dragging_node" =>
              /\ \A t \in interaction.targetIds :
                    /\ tasks[t].x = gest.tasks0[t].x +
                          (SnappedPrimary.x - gest.tasks0[interaction.primaryId].x)
                    /\ tasks[t].y = gest.tasks0[t].y +
                          (SnappedPrimary.y - gest.tasks0[interaction.primaryId].y)
              /\ \A t \in TaskIds \ interaction.targetIds : tasks[t] = gest.tasks0[t]
              /\ groups = gest.groups0
        /\ last.type = "dragging_group" =>
              /\ \A g \in interaction.targetIds :
                    groups[g] = [gest.groups0[g] EXCEPT !.x = @ + RawDelta.x,
                                                        !.y = @ + RawDelta.y]
              /\ \A g \in DOMAIN groups \ interaction.targetIds : groups[g] = gest.groups0[g]
              /\ \A t \in TaskIds :
                    tasks[t] = IF t \in ChildrenAtPress
                               THEN [gest.tasks0[t] EXCEPT !.x = @ + RawDelta.x,
                                                           !.y = @ + RawDelta.y]
                               ELSE gest.tasks0[t]
              /\ (last.used[1] = interaction.startX /\ last.used[2] = interaction.startY) =>
                    (groups = gest.groups0 /\ tasks = gest.tasks0)
        /\ last.type = "resizing_group" =>
              /\ \A g \in interaction.targetIds :
                    groups[g] = [gest.groups0[g] EXCEPT
                                    !.width = Max(Wu(MinGroupWidth), @ + RawDelta.x),
                                    !.height = Max(Wu(MinGroupHeight), @ + RawDelta.y)]
              /\ \A g \in DOMAIN groups \ interaction.targetIds : groups[g] = gest.groups0[g]
              /\ tasks = gest.tasks0

\* C35 witness: a group drag whose frames processed a position away from
\* the anchor and then the anchor itself, with a child carried, has the
\* groups and the tasks back at their starting positions
C35_Witness ==
    /\ ReplayedFrame
    /\ last.type = "dragging_group"
    /\ ChildrenAtPress # {}
    /\ last.used[1] = interaction.startX
    /\ last.used[2] = interaction.startY
    /\ \E p \in gest.seen : p # NoEvent /\ (p[1] # interaction.startX \/ p[2] # interaction.startY)
    /\ groups = gest.groups0
    /\ tasks = gest.tasks0

\* a drag of two or more selected tasks is in progress, or its release has
\* just been handled
MultiDragOpen ==
    /\ gest.downs = 1
    /\ gest.kind = "dragging_node"
    /\ Cardinality(selectedTaskIds) >= 2
    /\ interaction.type = "dragging_node" \/ last.ev = "up"

\* C36: a plain press on a task of a multi-selection keeps the task
\* selection, and so does every step that follows up to and including the
\* click delivered after the release
C36_MultiDragKeepsSelection ==
    [][/\ (/\ last'.ev = "press"
           /\ last'.id \in selectedTaskIds
           /\ Cardinality(selectedTaskIds) >= 2) => selectedTaskIds' = selectedTaskIds
       /\ MultiDragOpen => selectedTaskIds' = selectedTaskIds]_vars

\* a redo handled right after an undo
RedoAfterUndo ==
    /\ last.ev = "redo"
    /\ last.prior # <<>>

\* C37 as stated: a redo right after an undo leaves tasks and groups as
\* they were before the undo; an undo with an empty past and a redo with an
\* empty future change nothing; a committed checkpoint empties the redo
\* stack
C37_UndoRedoRoundTrip ==
    [][/\ (last'.ev = "redo" /\ last'.prior # <<>>) =>
              [tasks |-> tasks', groups |-> groups'] = last'.prior.before
       /\ (last'.ev = "undo" /\ history.past = <<>>) => UNCHANGED <<tasks, groups, history>>
       /\ (last'.ev = "redo" /\ history.future = <<>>) => UNCHANGED <<tasks, groups, history>>
       /\ pushCalls' > pushCalls => history'.future = <<>>]_vars

\* C37, for an undo that had a checkpoint to restore: a redo right after
\* it leaves tasks and groups as they were before the undo; an undo with an
\* empty past and a redo with an empty future change nothing; a committed
\* checkpoint empties the redo stack
C37_EffectiveUndoRedoRoundTrip ==
    [][/\ (last'.ev = "redo" /\ last'.prior # <<>> /\ last'.prior.acted) =>
              [tasks |-> tasks', groups |-> groups'] = last'.prior.before
       /\ (last'.ev = "undo" /\ history.past = <<>>) => UNCHANGED <<tasks, groups, history>>
       /\ (last'.ev = "redo" /\ history.future = <<>>) => UNCHANGED <<tasks, groups, history>>
       /\ pushCalls' > pushCalls => history'.future = <<>>]_vars

\* C37 witness: an undo moved a dragged group and its tasks back, the redo
\* right after it put them where the drag had left them, and the redo
\* stack is empty
C37_Witness ==
    /\ RedoAfterUndo
    /\ last.prior.acted
    /\ last.acted
    /\ Snapshot = last.prior.before
    /\ last.before.groups # groups
    /\ last.before.tasks # tasks
    /\ history.future = <<>>

\* C38: no step moves or resizes a locked group, a press on a locked group
\* commits no checkpoint, and a gesture on locked groups carries no task
C38_LockedGroupUntouched ==
    [][/\ \A g \in DOMAIN groups : groups[g].locked => groups'[g] = groups[g]
       /\ (/\ last'.ev = "press"
           /\ last'.etype \in {"group", "resize"}
           /\ groups[last'.id].locked) => pushCalls' = pushCalls
       /\ (/\ interaction.type = "dragging_group"
           /\ \A g \in interaction.targetIds : groups[g].locked) => tasks' = tasks]_vars

\* C39: the fields of the interaction state match its kind: a connection
\* source exactly in connecting, targets and captured positions exactly in
\* the two drags and the resize, one target in a resize, and an idle state
\* with anchor and pointer at 0
C39_FieldsMatchKind ==
    /\ "connectionStartId" \in DOMAIN interaction <=> interaction.type = "connecting"
    /\ "targetIds" \in DOMAIN interaction <=> interaction.type \in CheckpointKinds
    /\ "initialPositions" \in DOMAIN interaction <=> interaction.type \in CheckpointKinds
    /\ interaction.type = "resizing_group" => Cardinality(interaction.targetIds) = 1
    /\ interaction.type = "idle" =>
          /\ interaction.startX = 0 /\ interaction.startY = 0
          /\ interaction.currentX = 0 /\ interaction.currentY = 0

\* C39 witness: the idle state after the release of a drag or resize whose
\* frames processed a pointer position away from the origin
C39_Witness ==
    /\ last.ev = "up"
    /\ last.from \in CheckpointKinds
    /\ last.prev = "frame"
    /\ lastEventRef # NoEvent
    /\ lastEventRef[1] # 0
    /\ interaction = IdleState

====
